---- MODULE Spec2Model ----
(***************************************************************************)
(* farmOS MCP server: the transport client (OAuth token cache, one retry   *)
(* on 401), the tool entrypoints (fan-out lists, single-item lookups,      *)
(* include fallback, nested quantity writes) and the pure normalisers.     *)
(*                                                                         *)
(* A tool call is one action: it runs the whole handler against a backend  *)
(* whose answers are drawn from a bounded scenario, records every HTTP     *)
(* exchange of the call in call.wire and the returned JSON in call.result. *)
(* The host then takes the result (Deliver) before it sends the next call. *)
(***************************************************************************)
EXTENDS Integers, Sequences, FiniteSets, TLC

VARIABLES
    environ,        \* os.environ: FARMOS_URL, FARMOS_READ_ONLY
    registered,     \* tools registered with the MCP host (server.py)
    client,         \* farmos_client._client: "none" or "ready"
    access_token,   \* FarmOSClient._access_token: 0 is None, n > 0 the n-th token issued
    issued,         \* token endpoint: number of tokens issued so far
    revoked,        \* backend: tokens numbered <= revoked are expired
    call,           \* the call being answered: tool, arguments, backend scenario, wire log, result
    qcase,          \* pure-function bench: input and output of the normaliser under check
    hist            \* what went over the wire since the process started: the tokens that
                    \* were discarded and, while no request was answered 401 and the
                    \* first token exchange succeeded, the exchanges and the bearers

vars == <<environ, registered, client, access_token, issued, revoked, call, qcase, hist>>

(***************************************************************************)
(* Bounds of the model                                                     *)
(***************************************************************************)
\* tokens the token endpoint issues in one behaviour
MaxIssued == 2
\* leading bundles of a family a backend scenario may single out
MaxHome == 2
\* leading include levels a backend scenario may reject
MaxRej == 2
\* resources a bundle holds in a list scenario
MaxCat == 2
\* the limit argument of a list call
MaxLimit == 2

(***************************************************************************)
(* Strings as sequences of one-character strings                           *)
(***************************************************************************)
Upper == <<"A","B","C","D","E","F","G","H","I","J","K","L","M",
           "N","O","P","Q","R","S","T","U","V","W","X","Y","Z">>
Lower == <<"a","b","c","d","e","f","g","h","i","j","k","l","m",
           "n","o","p","q","r","s","t","u","v","w","x","y","z">>
Whitespace == {" ", "\t", "\n"}

\* str.lower() on one character
LowerChar(c) ==
    IF \E i \in 1..Len(Upper) : Upper[i] = c
    THEN Lower[CHOOSE i \in 1..Len(Upper) : Upper[i] = c]
    ELSE c

\* str.lower()
StrLower(s) == [i \in 1..Len(s) |-> LowerChar(s[i])]

RECURSIVE LStrip(_)
LStrip(s) == IF s # <<>> /\ Head(s) \in Whitespace THEN LStrip(Tail(s)) ELSE s

RECURSIVE RStrip(_)
RStrip(s) ==
    IF s # <<>> /\ s[Len(s)] \in Whitespace THEN RStrip(SubSeq(s, 1, Len(s) - 1)) ELSE s

\* str.strip()
StrStrip(s) == RStrip(LStrip(s))

RECURSIVE RStripChar(_, _)
\* str.rstrip(ch)
RStripChar(s, ch) ==
    IF s # <<>> /\ s[Len(s)] = ch THEN RStripChar(SubSeq(s, 1, Len(s) - 1), ch) ELSE s

(***************************************************************************)
(* Environment and read-only gate (farmos_client.py, server.py)            *)
(***************************************************************************)
Unset == <<"<unset>">>      \* the variable is not in os.environ

\* os.environ.get(name, default)
EnvGet(env, name, default) == IF env[name] = Unset THEN default ELSE env[name]

is_read_only_strict(env) ==
    EnvGet(env, "FARMOS_READ_ONLY", <<"t","r","u","e">>) # <<"f","a","l","s","e">>

is_read_only(env) ==
    StrLower(StrStrip(EnvGet(env, "FARMOS_READ_ONLY", <<"t","r","u","e">>)))
        # <<"f","a","l","s","e">>

ReadTools == {"get_logs", "get_log", "get_assets", "get_asset", "get_terms",
              "get_plans", "get_plan", "get_users", "get_farm_info", "get_quantities"}

WriteTools == {"create_log", "update_log", "create_asset", "update_asset",
               "create_term", "update_term", "create_plan", "update_plan"}

\* server.py: read tools always, write tools only when not read-only
RegisteredTools(env) == ReadTools \cup (IF ~is_read_only(env) THEN WriteTools ELSE {})

\* _create_client: url = FARMOS_URL.rstrip("/"); ValueError when empty
ClientUrl(env) == RStripChar(EnvGet(env, "FARMOS_URL", <<>>), "/")

CanCreateClient(env) == ClientUrl(env) # <<>>

(***************************************************************************)
(* Transport client (farmos_client.py)                                     *)
(*                                                                         *)
(* cs is the running state of one call: the cached token, the tokens       *)
(* issued, the token exchanges made in this call and the wire log.         *)
(* srv is the backend's behaviour during the call: deny (every token is    *)
(* answered 401), revoked (expired tokens), tokFailAt (the first token     *)
(* exchange of the call that fails, 0 for none).                           *)
(***************************************************************************)
NoToken == 0
NetErr == 0             \* no HTTP status: the connection failed (httpx.TransportError)

\* A response body: nothing, one resource ("item"), an empty data member, or a list.
Data(kind, bundle, id, rev, items) ==
    [kind |-> kind, bundle |-> bundle, id |-> id, rev |-> rev, items |-> items]
NoData == Data("none", "", "", 0, <<>>)
EmptyData == Data("empty", "", "", 0, <<>>)
Item(bundle, id, rev) == Data("item", bundle, id, rev, <<>>)
List(items) == Data("list", "", "", 0, items)

\* What the resource behind a request answers to an authorised request.
Ans(status, data) == [status |-> status, data |-> data]

TokenEvent(ok, tok) ==
    [kind |-> "token", method |-> "POST", req |-> [family |-> "oauth", bundle |-> "token", id |-> "", include |-> <<>>, limit |-> 0,
              offset |-> -1],
     bearer |-> tok, status |-> IF ok THEN 200 ELSE 401, data |-> NoData]

ApiEvent(method, req, tok, status, data) ==
    [kind |-> "api", method |-> method, req |-> req, bearer |-> tok, status |-> status,
     data |-> data]

\* _fetch_token: POST the grant, raise_for_status, store the access token
FetchToken(cs, srv) ==
    LET n  == cs.nex + 1
        ok == srv.tokFailAt = 0 \/ n < srv.tokFailAt
        t  == cs.issued + 1
    IN IF ok
       THEN [cs EXCEPT !.nex = n, !.issued = t, !.tok = t, !.failed = FALSE,
                       !.wire = Append(@, TokenEvent(TRUE, t))]
       ELSE [cs EXCEPT !.nex = n, !.failed = TRUE,
                       !.wire = Append(@, TokenEvent(FALSE, NoToken))]

\* Headers that exchange the credentials for a new token before every request
AuthHeadersAlways(cs, srv) == FetchToken(cs, srv)

\* _auth_headers: fetch a token only when none is cached
AuthHeaders(cs, srv) ==
    IF cs.tok = NoToken THEN FetchToken(cs, srv) ELSE [cs EXCEPT !.failed = FALSE]

\* The backend's answer to an API request carrying bearer tok, whose resource
\* would answer ans.
Answer(srv, tok, ans) ==
    IF ans.status = NetErr THEN Ans(NetErr, NoData)
    ELSE IF srv.deny \/ tok <= srv.revoked THEN Ans(401, NoData)
    ELSE ans

Sent(cs, method, req, a) ==
    [cs EXCEPT !.wire = Append(@, ApiEvent(method, req, cs.tok, a.status, a.data))]

HttpError(status) == [kind |-> "http", status |-> status, resp |-> 0]
TransportError == [kind |-> "transport", status |-> NetErr, resp |-> 0]

\* resp.raise_for_status(), then resp.json() of that response (the last sent)
RaiseForStatus(cs) ==
    LET resp == cs.wire[Len(cs.wire)]
    IN IF resp.status >= 200 /\ resp.status < 300
       THEN [kind |-> "ok", status |-> resp.status, resp |-> Len(cs.wire)]
       ELSE [kind |-> "http", status |-> resp.status, resp |-> Len(cs.wire)]

\* The request goes out with the headers' token and the answer is logged.
SendWith(a, srv, method, req, ans) ==
    [cs |-> Sent(a, method, req, Answer(srv, a.tok, ans)), sent |-> TRUE,
     status |-> Answer(srv, a.tok, ans).status]

\* One attempt: headers (token exchange when needed), then the request.
Attempted(a, srv, method, req, ans) ==
    IF a.failed THEN [cs |-> a, sent |-> FALSE, status |-> 401]
    ELSE SendWith(a, srv, method, req, ans)

Attempt(cs, srv, method, req, ans) == Attempted(AuthHeaders(cs, srv), srv, method, req, ans)

\* What the call ends with after its last attempt: the token exchange's error,
\* the transport's error, or raise_for_status on the response
Outcome(a) ==
    IF ~a.sent THEN [cs |-> a.cs, out |-> HttpError(a.status)]
    ELSE IF a.status = NetErr THEN [cs |-> a.cs, out |-> TransportError]
    ELSE [cs |-> a.cs, out |-> RaiseForStatus(a.cs)]

\* A policy that sends the request again after any response that is not 2xx
RetryOnError(a, srv, method, req, ans) ==
    IF a.sent /\ a.status # NetErr /\ a.status \notin 200..299
    THEN Outcome(Attempt([a.cs EXCEPT !.tok = NoToken], srv, method, req, ans))
    ELSE Outcome(a)

\* A retry that falls back on the token it dropped when the exchange is refused
RetryWithStaleToken(a, srv, method, req, ans) ==
    IF a.sent /\ a.status = 401
    THEN LET h == AuthHeaders([a.cs EXCEPT !.tok = NoToken], srv)
         IN Outcome(SendWith(IF h.failed THEN [h EXCEPT !.tok = a.cs.tok, !.failed = FALSE]
                             ELSE h, srv, method, req, ans))
    ELSE Outcome(a)

\* if resp.status_code == 401: drop the token, re-authenticate, send again
Retry(a, srv, method, req, ans) ==
    IF a.sent /\ a.status = 401
    THEN Outcome(Attempt([a.cs EXCEPT !.tok = NoToken], srv, method, req, ans))
    ELSE Outcome(a)

\* A retry that retries once more on a second 401.
RetryTwice(a, srv, method, req, ans) ==
    IF a.sent /\ a.status = 401
    THEN Retry(Attempt([a.cs EXCEPT !.tok = NoToken], srv, method, req, ans),
               srv, method, req, ans)
    ELSE Outcome(a)

\* A retry policy that retries a second time on a second 401.
RequestRetryTwice(cs, srv, method, req, ans) ==
    RetryTwice(Attempt(cs, srv, method, req, ans), srv, method, req, ans)

\* The request logged without the Authorization header's token.
SentNoBearer(cs, method, req, a) ==
    [cs |-> [cs EXCEPT !.wire = Append(@, ApiEvent(method, req, NoToken, a.status, a.data))],
     sent |-> TRUE, status |-> a.status]

\* A transport that sends the request without the Authorization header's token.
RequestNoBearer(cs, srv, method, req, ans) ==
    Outcome(SentNoBearer(cs, method, req, Answer(srv, cs.tok, ans)))

\* FarmOSClient._request: on 401 drop the token, re-authenticate, retry once
Request(cs, srv, method, req, ans) ==
    Retry(Attempt(cs, srv, method, req, ans), srv, method, req, ans)

Req(family, bundle, id, include, limit, offset) ==
    [family |-> family, bundle |-> bundle, id |-> id, include |-> include,
     limit |-> limit, offset |-> offset]

\* FarmOSClient.get / post / patch
ClientGetOp(cs, srv, req, ans) == Request(cs, srv, "GET", req, ans)
ClientPostOp(cs, srv, req, ans) == Request(cs, srv, "POST", req, ans)
ClientPatchOp(cs, srv, req, ans) == Request(cs, srv, "PATCH", req, ans)

\* The parsed body a successful call returned: resp.json() of the last response.
Body(r) == r.cs.wire[r.out.resp].data

\* The call's starting state, from the process state.
StartCs == [tok |-> access_token, issued |-> issued, nex |-> 0, failed |-> FALSE, wire |-> <<>>]

Srv(deny, tokFailAt) == [deny |-> deny, revoked |-> revoked, tokFailAt |-> tokFailAt]

NoCall == [tool |-> "none"]
Idle == call = NoCall

\* exchanges the history counts before it stops counting
MaxExchanges == 3

\* The history of the wire: the token exchanges made, the token the first of them
\* issued and the bearer tokens the requests carried.  It is kept while no request
\* was answered 401 and the first exchange succeeded (clean) and dropped afterwards.
NoHistory == [clean |-> TRUE, exchanges |-> 0, token |-> NoToken, bearers |-> {}, discarded |-> {}]
Dropped == [clean |-> FALSE, exchanges |-> 0, token |-> NoToken, bearers |-> {}, discarded |-> {}]

\* The tokens discarded before event j of a wire log: a request answered 401 after
\* which the client exchanged its credentials again had its token discarded
DiscardedIn(w, j) ==
    {w[i].bearer : i \in {k \in 1..Len(w) : /\ k + 1 < j /\ k + 1 <= Len(w)
                                             /\ w[k].kind = "api" /\ w[k].status = 401
                                             /\ w[k + 1].kind = "token"}}

Recorded(h, w) ==
    LET toks == {i \in 1..Len(w) : w[i].kind = "token"}
        apis == {i \in 1..Len(w) : w[i].kind = "api"}
        first == CHOOSE i \in toks : \A j \in toks : i <= j
    IN IF \/ ~h.clean
          \/ \E i \in apis : w[i].status = 401
          \/ h.exchanges = 0 /\ toks # {} /\ w[first].status # 200
       THEN [Dropped EXCEPT !.discarded = h.discarded \cup DiscardedIn(w, Len(w) + 2)]
       ELSE [clean |-> TRUE, discarded |-> h.discarded,
             exchanges |-> IF h.exchanges + Cardinality(toks) > MaxExchanges THEN MaxExchanges
                           ELSE h.exchanges + Cardinality(toks),
             token |-> IF h.exchanges = 0 /\ toks # {} THEN w[first].bearer ELSE h.token,
             bearers |-> h.bearers \cup {w[i].bearer : i \in apis}]

(***************************************************************************)
(* Initial state: the process after import of server.py                    *)
(***************************************************************************)
GoodUrl == <<"h", "/">>
EnvUrls == {Unset, <<"/">>, GoodUrl}

EnvReadOnly == {Unset, <<"f","a","l","s","e">>, <<" ","F","a","l","s","E","\n">>, <<"0">>,
                <<"t","r","u","e">>, <<"f","a","l","s","e","0">>}

Init ==
    /\ environ \in [FARMOS_URL : {GoodUrl}, FARMOS_READ_ONLY : EnvReadOnly]
                    \cup [FARMOS_URL : EnvUrls, FARMOS_READ_ONLY : {<<"f","a","l","s","e">>}]
    /\ registered = RegisteredTools(environ)
    /\ client = "none"
    /\ access_token = NoToken
    /\ issued = 0
    /\ revoked = 0
    /\ call = NoCall
    /\ qcase = [fn |-> "none"]
    /\ hist = NoHistory

\* get_client: the singleton is created on first use
GetClientReady == client = "ready" \/ CanCreateClient(environ)

\* The host takes the result of the call; the next call may start.
Deliver ==
    /\ ~Idle
    /\ call' = NoCall
    /\ UNCHANGED <<environ, registered, client, access_token, issued, revoked, qcase, hist>>

\* The backend expires every token issued so far.
Expire ==
    /\ revoked < issued
    /\ revoked' = issued
    /\ UNCHANGED <<environ, registered, client, access_token, issued, call, qcase, hist>>

(***************************************************************************)
(* Transport calls: client.get / client.post / client.patch by any caller  *)
(***************************************************************************)
TransportPaths == {Req("asset", "land", "", <<>>, 0, -1), Req("log", "activity", "L1", <<>>, 0, -1)}
TransportAnswers == {Ans(200, Item("land", "A1", 0)), Ans(201, Item("activity", "L1", 1)),
                     Ans(404, NoData), Ans(422, NoData), Ans(500, NoData), Ans(NetErr, NoData)}

\* A caller holding the client may start a request once the previous one is done.
CanRequest == Idle /\ GetClientReady /\ issued < MaxIssued

TransportCall(name, r, req) ==
    /\ client' = "ready"
    /\ access_token' = r.cs.tok
    /\ issued' = r.cs.issued
    /\ call' = [tool |-> name, args |-> [req |-> req], tok0 |-> access_token,
                discarded0 |-> hist.discarded, wire |-> r.cs.wire, result |-> r.out]
    /\ hist' = Recorded(hist, r.cs.wire)
    /\ UNCHANGED <<environ, registered, revoked, qcase>>

TransportGet ==
    /\ CanRequest
    /\ \E req \in TransportPaths, ans \in TransportAnswers, deny \in BOOLEAN, f \in 0..2 :
           TransportCall("client.get", ClientGetOp(StartCs, Srv(deny, f), req, ans), req)

TransportPost ==
    /\ CanRequest
    /\ \E req \in TransportPaths, ans \in TransportAnswers, deny \in BOOLEAN, f \in 0..2 :
           TransportCall("client.post", ClientPostOp(StartCs, Srv(deny, f), req, ans), req)

TransportPatch ==
    /\ CanRequest
    /\ \E req \in TransportPaths, ans \in TransportAnswers, deny \in BOOLEAN, f \in 0..2 :
           TransportCall("client.patch", ClientPatchOp(StartCs, Srv(deny, f), req, ans), req)

NextTransport == TransportGet \/ TransportPost \/ TransportPatch \/ Expire \/ Deliver

SpecTransport == Init /\ [][NextTransport]_vars

(***************************************************************************)
(* Tool boundary (tools/*.py): every tool body runs inside                 *)
(*     try: ... except Exception as e: return json.dumps({"error": str(e)})*)
(***************************************************************************)
Return(cs, json) == [cs |-> cs, ret |-> [kind |-> "return", json |-> json]]
Raise(cs, exc) == [cs |-> cs, ret |-> [kind |-> "raise", json |-> [error |-> TRUE, msg |-> exc]]]

ErrorJson(msg) == [error |-> TRUE, msg |-> msg]

\* str(e) of a failed transport call
ErrText(out) == IF out.kind = "transport" THEN "transport error" ELSE "http status error"

\* A handler without the except clause: the exception leaves the tool.
TryExceptMissing(r) == r

\* except Exception as e: return json.dumps({"error": str(e)})
TryExcept(r) ==
    IF r.ret.kind = "raise" THEN Return(r.cs, ErrorJson(r.ret.json.msg)) ELSE r

\* get_client() at the top of every tool body: ValueError when FARMOS_URL is missing
ClientMissing(cs) == Raise(cs, "FARMOS_URL is required")

(***************************************************************************)
(* Backend scenario of a single-resource GET                               *)
(*   home    the bundle that holds the id ("none": no bundle does)         *)
(*   down    bundles whose every request is answered 404 (not installed)   *)
(*   rej     include strings the backend rejects with 400                  *)
(*   absent  what a GET of an id the bundle does not hold answers:         *)
(*           404, or 200 with empty data                                   *)
(***************************************************************************)
LookupAnswer(be, bundle, id, include) ==
    IF bundle \in be.down THEN Ans(404, NoData)
    ELSE IF include \in be.rej THEN Ans(400, NoData)
    ELSE IF bundle = be.home THEN Ans(200, Item(bundle, id, 0))
    ELSE IF be.absent = 404 THEN Ans(404, NoData)
    ELSE Ans(200, EmptyData)

(***************************************************************************)
(* tools/logs.py: get_log                                                  *)
(***************************************************************************)
LOG_TYPES == <<"activity", "harvest", "input", "lab_test", "maintenance", "medical",
               "observation", "purchase", "sale", "seeding", "transplanting">>

\* An include string is modelled by the sequence of its comma-separated members.
_LOG_INCLUDE_LEVELS ==
    <<<<"asset", "location", "equipment", "owner", "category", "quantity", "quantity.units">>,
      <<"asset", "location", "owner", "category", "quantity", "quantity.units">>,
      <<"asset", "location", "owner", "category", "quantity">>,
      <<"quantity">>>>

\* include_str None: the request carries no include parameter
NoInclude == <<>>

\* (*_LOG_INCLUDE_LEVELS, None)
LogIncludeAttempts == _LOG_INCLUDE_LEVELS \o <<NoInclude>>

IncludeError(t, include, out) == [type |-> t, include |-> include, err |-> ErrText(out)]

\* An include loop that takes the last level that works instead of the first.
RECURSIVE LogIncludeLoopLast(_, _, _, _, _, _, _)
LogIncludeLoopLast(cs, srv, be, t, id, lvl, errs) ==
    IF lvl > Len(LogIncludeAttempts)
    THEN [cs |-> cs, level |-> 0, data |-> NoData, errs |-> errs]
    ELSE LET inc == LogIncludeAttempts[lvl]
             r == ClientGetOp(cs, srv, Req("log", t, id, inc, 0, -1), LookupAnswer(be, t, id, inc))
             rest == LogIncludeLoopLast(r.cs, srv, be, t, id, lvl + 1,
                                        IF r.out.kind = "ok" THEN errs
                                        ELSE Append(errs, IncludeError(t, inc, r.out)))
         IN IF r.out.kind = "ok" /\ rest.level = 0
            THEN [cs |-> rest.cs, level |-> lvl, data |-> Body(r), errs |-> rest.errs]
            ELSE rest

\* An include loop that goes through the include levels a second time.
RECURSIVE LogIncludeLoopAgain(_, _, _, _, _, _, _)
LogIncludeLoopAgain(cs, srv, be, t, id, lvl, errs) ==
    IF lvl > 2 * Len(LogIncludeAttempts)
    THEN [cs |-> cs, level |-> 0, data |-> NoData, errs |-> errs]
    ELSE LET inc == (LogIncludeAttempts \o LogIncludeAttempts)[lvl]
             r == ClientGetOp(cs, srv, Req("log", t, id, inc, 0, -1), LookupAnswer(be, t, id, inc))
         IN IF r.out.kind = "ok"
            THEN [cs |-> r.cs, level |-> lvl, data |-> Body(r), errs |-> errs]
            ELSE LogIncludeLoopAgain(r.cs, srv, be, t, id, lvl + 1,
                                     Append(errs, IncludeError(t, inc, r.out)))

\* get_log, the inner loop: for include_str in (*_LOG_INCLUDE_LEVELS, None)
RECURSIVE LogIncludeLoop(_, _, _, _, _, _, _)
LogIncludeLoop(cs, srv, be, t, id, lvl, errs) ==
    IF lvl > Len(LogIncludeAttempts)
    THEN [cs |-> cs, level |-> 0, data |-> NoData, errs |-> errs]
    ELSE LET inc == LogIncludeAttempts[lvl]
             r == ClientGetOp(cs, srv, Req("log", t, id, inc, 0, -1), LookupAnswer(be, t, id, inc))
         IN IF r.out.kind = "ok"
            THEN [cs |-> r.cs, level |-> lvl, data |-> Body(r), errs |-> errs]
            ELSE LogIncludeLoop(r.cs, srv, be, t, id, lvl + 1,
                                Append(errs, IncludeError(t, inc, r.out)))

\* _normalize_log of the resource returned, as far as the lookups read it
NormalizedLog(data) == [error |-> FALSE, id |-> data.id, type |-> data.bundle]

\* if include_errors: normalized["_include_warnings"], normalized["_include_used"]
Annotated(json, includeErrors, includeUsed) ==
    IF includeErrors # <<>>
    THEN json @@ [_include_warnings |-> includeErrors, _include_used |-> includeUsed]
    ELSE json

\* A lookup that keeps probing after a hit and returns the last bundle that answers.
RECURSIVE GetLogTypesLast(_, _, _, _, _, _)
GetLogTypesLast(cs, srv, be, types, id, errors) ==
    IF types = <<>>
    THEN Return(cs, [error |-> TRUE, msg |-> "Log not found", details |-> errors])
    ELSE LET t == Head(types)
             inc == LogIncludeLoop(cs, srv, be, t, id, 1, <<>>)
             rest == GetLogTypesLast(inc.cs, srv, be, Tail(types), id, errors \o inc.errs)
         IN IF inc.level = 0 \/ inc.data.kind # "item" \/ ~rest.ret.json.error
            THEN rest
            ELSE Return(rest.cs, Annotated(NormalizedLog(inc.data), inc.errs,
                                           LogIncludeAttempts[inc.level]))

\* get_log, the outer loop: for t in types_to_try
RECURSIVE GetLogTypes(_, _, _, _, _, _)
GetLogTypes(cs, srv, be, types, id, errors) ==
    IF types = <<>>
    THEN Return(cs, [error |-> TRUE, msg |-> "Log not found", details |-> errors])
    ELSE LET t == Head(types)
             inc == LogIncludeLoop(cs, srv, be, t, id, 1, <<>>)
         IN IF inc.level = 0 \/ inc.data.kind # "item"
            THEN GetLogTypes(inc.cs, srv, be, Tail(types), id, errors \o inc.errs)
            ELSE Return(inc.cs, Annotated(NormalizedLog(inc.data), inc.errs,
                                          LogIncludeAttempts[inc.level]))

NoType == ""        \* the optional bundle argument left out (None)

get_log(cs, srv, be, id, log_type) ==
    TryExcept(
        IF ~GetClientReady THEN ClientMissing(cs)
        ELSE GetLogTypes(cs, srv, be, IF log_type # NoType THEN <<log_type>> ELSE LOG_TYPES,
                         id, <<>>))

(***************************************************************************)
(* tools/assets.py: get_asset                                              *)
(***************************************************************************)
ASSET_TYPES == <<"animal", "compost", "equipment", "group", "land", "material", "plant",
                 "product", "sensor", "structure", "water">>

_ASSET_INCLUDE ==
    <<"parent", "owner", "animal_type", "plant_type", "season", "equipment_type", "material_type">>

\* for use_include in (True, False)
AssetIncludeAttempts == <<_ASSET_INCLUDE, NoInclude>>

AssetError(t, include, out) == [type |-> t, include |-> include, err |-> ErrText(out)]

RECURSIVE AssetIncludeLoop(_, _, _, _, _, _, _)
AssetIncludeLoop(cs, srv, be, t, id, lvl, errs) ==
    IF lvl > Len(AssetIncludeAttempts)
    THEN [cs |-> cs, level |-> 0, data |-> NoData, errs |-> errs]
    ELSE LET inc == AssetIncludeAttempts[lvl]
             r == ClientGetOp(cs, srv, Req("asset", t, id, inc, 0, -1), LookupAnswer(be, t, id, inc))
         IN IF r.out.kind = "ok"
            THEN [cs |-> r.cs, level |-> lvl, data |-> Body(r), errs |-> errs]
            ELSE AssetIncludeLoop(r.cs, srv, be, t, id, lvl + 1,
                                  Append(errs, AssetError(t, inc, r.out)))

\* _normalize_asset of the resource returned, as far as the lookups read it
NormalizedAsset(data) == [error |-> FALSE, id |-> data.id, type |-> data.bundle]

RECURSIVE GetAssetTypes(_, _, _, _, _, _)
GetAssetTypes(cs, srv, be, types, id, errors) ==
    IF types = <<>>
    THEN Return(cs, [error |-> TRUE, msg |-> "Asset not found", details |-> errors])
    ELSE LET t == Head(types)
             inc == AssetIncludeLoop(cs, srv, be, t, id, 1, errors)
         IN IF inc.level = 0 \/ inc.data.kind # "item"
            THEN GetAssetTypes(inc.cs, srv, be, Tail(types), id, inc.errs)
            ELSE Return(inc.cs, NormalizedAsset(inc.data))

get_asset(cs, srv, be, id, asset_type) ==
    TryExcept(
        IF ~GetClientReady THEN ClientMissing(cs)
        ELSE GetAssetTypes(cs, srv, be,
                           IF asset_type # NoType THEN <<asset_type>> ELSE ASSET_TYPES, id, <<>>))

(***************************************************************************)
(* tools/plans.py: get_plan                                                *)
(***************************************************************************)
\* A plan family with one configured sub-type
PlanTypesConfigured == <<"rotational_grazing">>

\* PLAN_TYPES: list[str] = []
PLAN_TYPES == <<>>

NormalizedPlan(data) == [error |-> FALSE, id |-> data.id, type |-> data.bundle]

RECURSIVE GetPlanTypes(_, _, _, _, _)
GetPlanTypes(cs, srv, be, types, id) ==
    IF types = <<>>
    THEN Return(cs, [error |-> TRUE, msg |-> "Plan not found"])
    ELSE LET t == Head(types)
             r == ClientGetOp(cs, srv, Req("plan", t, id, NoInclude, 0, -1),
                              LookupAnswer(be, t, id, NoInclude))
         IN IF r.out.kind = "ok" /\ Body(r).kind = "item"
            THEN Return(r.cs, NormalizedPlan(Body(r)))
            ELSE GetPlanTypes(r.cs, srv, be, Tail(types), id)

get_plan(cs, srv, be, id, plan_type) ==
    TryExcept(
        IF ~GetClientReady THEN ClientMissing(cs)
        ELSE LET types_to_try == IF plan_type # NoType THEN <<plan_type>> ELSE PLAN_TYPES
             IN IF types_to_try = <<>>
                THEN Return(cs, ErrorJson("plan_type is required when no plan types are configured"))
                ELSE GetPlanTypes(cs, srv, be, types_to_try, id))

(***************************************************************************)
(* Timestamps: epoch seconds to ISO-8601 in UTC (_ts_to_iso)               *)
(* An ISO string is modelled by its fields <<year, month, day, h, m, s>>:  *)
(* the fields are zero-padded, so strings compare as the field tuples do.  *)
(***************************************************************************)
SecondsPerDay == 86400

\* Civil date of a day count since 1970-01-01 (proleptic Gregorian calendar)
CivilFromDays(days) ==
    LET z   == days + 719468
        era == z \div 146097
        doe == z - era * 146097
        yoe == (doe - doe \div 1460 + doe \div 36524 - doe \div 146096) \div 365
        doy == doe - (365 * yoe + yoe \div 4 - yoe \div 100)
        mp  == (5 * doy + 2) \div 153
        d   == doy - (153 * mp + 2) \div 5 + 1
        m   == IF mp < 10 THEN mp + 3 ELSE mp - 9
        y   == yoe + era * 400 + (IF m <= 2 THEN 1 ELSE 0)
    IN <<y, m, d>>

\* datetime.fromtimestamp(int(ts), tz=timezone.utc).isoformat()
_ts_to_iso(ts) ==
    LET days == ts \div SecondsPerDay
        rem  == ts % SecondsPerDay
    IN CivilFromDays(days) \o <<rem \div 3600, (rem % 3600) \div 60, rem % 60>>

RECURSIVE SeqLess(_, _)
\* a < b for strings (sequences of code points or of zero-padded fields)
SeqLess(a, b) ==
    IF b = <<>> THEN FALSE
    ELSE IF a = <<>> THEN TRUE
    ELSE IF Head(a) # Head(b) THEN Head(a) < Head(b)
    ELSE SeqLess(Tail(a), Tail(b))

\* Code points of the characters used in names
Ascii == <<" ", "0", "1", "2", "A", "B", "C", "Z", "a", "b", "c", "z">>
Ord(c) == CHOOSE i \in 1..Len(Ascii) : Ascii[i] = c
Codes(s) == [i \in 1..Len(s) |-> Ord(s[i])]

(***************************************************************************)
(* Merged lists: sort and truncate                                         *)
(***************************************************************************)
\* a sorts before b under the key order (reverse: the greater key first)
KeyBefore(a, b, reverse) == IF reverse THEN SeqLess(b, a) ELSE SeqLess(a, b)

\* list.sort(key=..., reverse=...) on <<key, item>> pairs: stable, so an element
\* is preceded by those whose key sorts before its own and by the earlier ones
\* among those whose key sorts neither before nor after
SortKeyed(xs, reverse) ==
    LET rank == [i \in 1..Len(xs) |->
                    1 + Cardinality({j \in 1..Len(xs) :
                            \/ KeyBefore(xs[j].key, xs[i].key, reverse)
                            \/ /\ ~KeyBefore(xs[i].key, xs[j].key, reverse)
                               /\ j < i})] \o <<>>
    IN [k \in 1..Len(xs) |-> xs[CHOOSE i \in 1..Len(xs) : rank[i] = k]]

Items(pairs) == [i \in 1..Len(pairs) |-> pairs[i].item]

\* xs[:n] for n >= 0
Truncate(xs, n) == SubSeq(xs, 1, IF n < Len(xs) THEN n ELSE Len(xs))

PageLimitCap == 100

\* min(limit, 100)
PageLimit(limit) == IF limit < PageLimitCap THEN limit ELSE PageLimitCap

NoOffset == -1      \* the request carries no page[offset]

(***************************************************************************)
(* Backend scenario of a list GET: cat[bundle] is what the bundle holds,   *)
(* in the order the backend lists it; bundles in down answer 404.          *)
(***************************************************************************)
Catalog(be, bundle) == IF bundle \in DOMAIN be.cat THEN be.cat[bundle] ELSE <<>>

Page(xs, limit, offset) ==
    LET from == (IF offset = NoOffset THEN 0 ELSE offset) + 1
        to   == IF from + limit - 1 < Len(xs) THEN from + limit - 1 ELSE Len(xs)
    IN SubSeq(xs, from, to)

ListAnswer(be, bundle, limit, offset) ==
    IF bundle \in be.down THEN Ans(IF "unreachable" \in DOMAIN be THEN NetErr ELSE 404, NoData)
    ELSE Ans(200, List(Page(Catalog(be, bundle), limit, offset)))

\* _normalize_log of a listed resource, as far as the list reads it
NormLogItem(r) == [id |-> r.id, type |-> r.bundle, timestamp |-> _ts_to_iso(r.ts)]
NormAssetItem(r) == [id |-> r.id, type |-> r.bundle, name |-> r.name]
NormPlanItem(r) == [id |-> r.id, type |-> r.bundle, name |-> r.name]
NormQuantityItem(r) == [id |-> r.id, type |-> r.bundle]
NormTermItem(r) == [id |-> r.id, vocabulary |-> r.bundle, name |-> r.name]
NormUserItem(r) == [id |-> r.id, name |-> r.name]

\* [_normalize_x(r) for r in result.get("data", [])]
NormItems(family, rs) ==
    [i \in 1..Len(rs) |->
        CASE family = "log" -> NormLogItem(rs[i])
          [] family = "asset" -> NormAssetItem(rs[i])
          [] family = "plan" -> NormPlanItem(rs[i])
          [] family = "quantity" -> NormQuantityItem(rs[i])
          [] family = "taxonomy_term" -> NormTermItem(rs[i])
          [] family = "user" -> NormUserItem(rs[i])]

\* A fan-out without the per-bundle try: the first failing bundle fails the call.
RECURSIVE FanOutStrict(_, _, _, _, _, _, _)
FanOutStrict(cs, srv, be, family, types, limit, acc) ==
    IF types = <<>> THEN [cs |-> cs, all |-> acc]
    ELSE LET t == Head(types)
             r == ClientGetOp(cs, srv, Req(family, t, "", NoInclude, PageLimit(limit), NoOffset),
                              ListAnswer(be, t, PageLimit(limit), NoOffset))
         IN IF r.out.kind # "ok" THEN [cs |-> r.cs, all |-> <<>>]
            ELSE FanOutStrict(r.cs, srv, be, family, Tail(types), limit,
                              acc \o NormItems(family, Body(r).items))

\* One request per bundle; a failing bundle is skipped (except Exception: pass)
RECURSIVE FanOut(_, _, _, _, _, _, _)
FanOut(cs, srv, be, family, types, limit, acc) ==
    IF types = <<>> THEN [cs |-> cs, all |-> acc]
    ELSE LET t == Head(types)
             r == ClientGetOp(cs, srv, Req(family, t, "", NoInclude, PageLimit(limit), NoOffset),
                              ListAnswer(be, t, PageLimit(limit), NoOffset))
             got == IF r.out.kind = "ok" THEN NormItems(family, Body(r).items) ELSE <<>>
         IN FanOut(r.cs, srv, be, family, Tail(types), limit, acc \o got)

\* The single request of a list with the bundle given: page[limit], page[offset]
ListOne(cs, srv, be, family, bundle, limit, offset) ==
    LET r == ClientGetOp(cs, srv, Req(family, bundle, "", NoInclude, PageLimit(limit), offset),
                         ListAnswer(be, bundle, PageLimit(limit), offset))
    IN IF r.out.kind # "ok" THEN Raise(r.cs, ErrText(r.out))
       ELSE LET items == NormItems(family, Body(r).items)
            IN Return(r.cs, [error |-> FALSE, returned |-> Len(items), items |-> items,
                             total |-> Len(Catalog(be, bundle))])

ListJson(items) == [error |-> FALSE, returned |-> Len(items), items |-> items]

(***************************************************************************)
(* tools/logs.py: get_logs                                                 *)
(***************************************************************************)

\* key=lambda x: x.get("timestamp") or ""
LogKey(x) == x.timestamp

Keyed(all, keys) == [i \in 1..Len(all) |-> [key |-> keys[i], item |-> all[i]]]

SortLogsAscending(all) ==
    Items(SortKeyed(Keyed(all, [i \in 1..Len(all) |-> LogKey(all[i])]), FALSE))

\* all_logs.sort(key=..., reverse=True)
SortLogs(all) ==
    Items(SortKeyed(Keyed(all, [i \in 1..Len(all) |-> LogKey(all[i])]), TRUE))

\* A fan-out whose per-bundle requests carry page[offset] as well
RECURSIVE FanOutOffset(_, _, _, _, _, _, _, _)
FanOutOffset(cs, srv, be, family, types, limit, offset, acc) ==
    IF types = <<>> THEN [cs |-> cs, all |-> acc]
    ELSE LET t == Head(types)
             r == ClientGetOp(cs, srv, Req(family, t, "", NoInclude, PageLimit(limit), offset),
                              ListAnswer(be, t, PageLimit(limit), offset))
             got == IF r.out.kind = "ok" THEN NormItems(family, Body(r).items) ELSE <<>>
         IN FanOutOffset(r.cs, srv, be, family, Tail(types), limit, offset, acc \o got)

\* get_logs with the offset applied to every sub-type of a merged list
get_logs_offset_everywhere(cs, srv, be, log_type, limit, offset) ==
    TryExcept(
        IF ~GetClientReady THEN ClientMissing(cs)
        ELSE IF log_type # NoType
        THEN ListOne(cs, srv, be, "log", log_type, limit, offset)
        ELSE LET f == FanOutOffset(cs, srv, be, "log", LOG_TYPES, limit, offset, <<>>)
             IN Return(f.cs, ListJson(Truncate(SortLogs(f.all), limit))))

\* get_logs failing the merged list when its last sub-type request failed
get_logs_fail_merged(cs, srv, be, log_type, limit, offset) ==
    TryExcept(
        IF ~GetClientReady THEN ClientMissing(cs)
        ELSE IF log_type # NoType
        THEN ListOne(cs, srv, be, "log", log_type, limit, offset)
        ELSE LET f == FanOut(cs, srv, be, "log", LOG_TYPES, limit, <<>>)
             IN IF f.cs.wire # <<>> /\ f.cs.wire[Len(f.cs.wire)].status \notin 200..299
                THEN Raise(f.cs, "HTTPStatusError")
                ELSE Return(f.cs, ListJson(Truncate(SortLogs(f.all), limit))))

get_logs(cs, srv, be, log_type, limit, offset) ==
    TryExcept(
        IF ~GetClientReady THEN ClientMissing(cs)
        ELSE IF log_type # NoType
        THEN ListOne(cs, srv, be, "log", log_type, limit, offset)
        ELSE LET f == FanOut(cs, srv, be, "log", LOG_TYPES, limit, <<>>)
             IN Return(f.cs, ListJson(Truncate(SortLogs(f.all), limit))))

(***************************************************************************)
(* tools/assets.py: get_assets                                             *)
(***************************************************************************)

\* key=lambda x: (x.get("name") or "").lower()
AssetKey(x) == Codes(StrLower(x.name))

SortAssetsCaseSensitive(all) ==
    Items(SortKeyed(Keyed(all, [i \in 1..Len(all) |-> Codes(all[i].name)]), FALSE))

\* all_assets.sort(key=...)
SortAssets(all) ==
    Items(SortKeyed(Keyed(all, [i \in 1..Len(all) |-> AssetKey(all[i])]), FALSE))

get_assets(cs, srv, be, asset_type, limit, offset) ==
    TryExcept(
        IF ~GetClientReady THEN ClientMissing(cs)
        ELSE IF asset_type # NoType
        THEN ListOne(cs, srv, be, "asset", asset_type, limit, offset)
        ELSE LET f == FanOut(cs, srv, be, "asset", ASSET_TYPES, limit, <<>>)
             IN Return(f.cs, ListJson(Truncate(SortAssets(f.all), limit))))

(***************************************************************************)
(* tools/plans.py: get_plans                                               *)
(***************************************************************************)

get_plans(cs, srv, be, plan_type, limit, offset) ==
    TryExcept(
        IF ~GetClientReady THEN ClientMissing(cs)
        ELSE IF plan_type # NoType
        THEN ListOne(cs, srv, be, "plan", plan_type, limit, offset)
        ELSE IF PLAN_TYPES = <<>>
        THEN Return(cs, ListJson(<<>>) @@ [note |-> "No plan types configured"])
        ELSE LET f == FanOut(cs, srv, be, "plan", PLAN_TYPES, limit, <<>>)
             IN Return(f.cs, ListJson(Truncate(SortAssets(f.all), limit))))

(***************************************************************************)
(* tools/quantities.py: get_quantities                                     *)
(***************************************************************************)
QUANTITY_TYPES == <<"standard", "material", "test">>


\* get_quantities asking the sub-types in the reverse order
get_quantities_last_first(cs, srv, be, quantity_type, limit, offset) ==
    TryExcept(
        IF ~GetClientReady THEN ClientMissing(cs)
        ELSE IF quantity_type # NoType
        THEN ListOne(cs, srv, be, "quantity", quantity_type, limit, offset)
        ELSE LET f == FanOut(cs, srv, be, "quantity", <<"test", "material", "standard">>, limit, <<>>)
             IN Return(f.cs, ListJson(Truncate(f.all, limit))))

\* if quantity_type: one request; else for qt in QUANTITY_TYPES ... all_quantities[:limit]
get_quantities(cs, srv, be, quantity_type, limit, offset) ==
    TryExcept(
        IF ~GetClientReady THEN ClientMissing(cs)
        ELSE IF quantity_type # NoType
        THEN ListOne(cs, srv, be, "quantity", quantity_type, limit, offset)
        ELSE LET f == FanOut(cs, srv, be, "quantity", QUANTITY_TYPES, limit, <<>>)
             IN Return(f.cs, ListJson(Truncate(f.all, limit))))

(***************************************************************************)
(* tools/terms.py, tools/users.py, tools/farm.py: one request each         *)
(***************************************************************************)

get_terms(cs, srv, be, vocabulary, limit, offset) ==
    TryExcept(
        IF ~GetClientReady THEN ClientMissing(cs)
        ELSE ListOne(cs, srv, be, "taxonomy_term", vocabulary, limit, offset))

get_users(cs, srv, be, limit, offset) ==
    TryExcept(
        IF ~GetClientReady THEN ClientMissing(cs)
        ELSE ListOne(cs, srv, be, "user", "user", limit, offset))

\* client.get(""): the JSON:API root document
get_farm_info(cs, srv, be) ==
    TryExcept(
        IF ~GetClientReady THEN ClientMissing(cs)
        ELSE LET r == ClientGetOp(cs, srv, Req("", "", "", NoInclude, 0, NoOffset),
                                  IF "" \in be.down THEN Ans(500, NoData)
                                  ELSE Ans(200, Item("", "", 0)))
             IN IF r.out.kind # "ok" THEN Raise(r.cs, ErrText(r.out))
                ELSE Return(r.cs, [error |-> FALSE, farm_name |-> "farm"]))

(***************************************************************************)
(* Write tools: arguments and conversions                                  *)
(* An optional argument is the empty set (None) or a singleton.            *)
(***************************************************************************)
None == {}
Some(v) == {v}
The(x) == CHOOSE v \in x : TRUE

\* An ISO-8601 argument: form "date" (YYYY-MM-DD), "utc" (with a trailing Z),
\* "naive" (date and time without an offset) or "bad" (not ISO at all).
Iso(form, y, m, d, secs) == [form |-> form, y |-> y, m |-> m, d |-> d, secs |-> secs]

\* Days since 1970-01-01 of a civil date (proleptic Gregorian calendar)
DaysFromCivil(y, m, d) ==
    LET yy  == IF m <= 2 THEN y - 1 ELSE y
        era == yy \div 400
        yoe == yy - era * 400
        doy == (153 * (IF m > 2 THEN m - 3 ELSE m + 9) + 2) \div 5 + d - 1
        doe == yoe * 365 + yoe \div 4 - yoe \div 100 + doy
    IN era * 146097 + doe - 719468

\* datetime.fromisoformat(s.replace("Z", "+00:00")).timestamp(): a value without
\* an offset is taken in the local zone of the process (utcoffset seconds east)
FromIsoFormat(iso, utcoffset) ==
    IF iso.form = "bad" THEN [ok |-> FALSE, ts |-> 0]
    ELSE [ok |-> TRUE,
          ts |-> DaysFromCivil(iso.y, iso.m, iso.d) * SecondsPerDay + iso.secs
                 - (IF iso.form = "utc" THEN 0 ELSE utcoffset)]

\* _iso_to_ts: a string without "T" gets "T00:00:00Z" appended first
_iso_to_ts(iso, utcoffset) ==
    IF iso.form = "date" THEN FromIsoFormat([iso EXCEPT !.form = "utc", !.secs = 0], utcoffset)
    ELSE FromIsoFormat(iso, utcoffset)

\* Decimal digits of a natural number
DigitChars == <<"0", "1", "2", "3", "4", "5", "6", "7", "8", "9">>

RECURSIVE Digits(_)
Digits(n) == IF n < 10 THEN <<DigitChars[n + 1]>> ELSE Digits(n \div 10) \o <<DigitChars[(n % 10) + 1]>>

\* A quantity value as the caller passes it: an int, a float (in tenths) or a string
IntValue(n) == [kind |-> "int", tenths |-> 10 * n, text |-> <<>>]
FloatValue(tenths) == [kind |-> "float", tenths |-> tenths, text |-> <<>>]
StrValue(text) == [kind |-> "str", tenths |-> 0, text |-> text]

DigitOf(c) == CHOOSE i \in 0..9 : DigitChars[i + 1] = c
IsDigits(s) == s # <<>> /\ \A i \in 1..Len(s) : \E k \in 1..10 : DigitChars[k] = s[i]

RECURSIVE NatOf(_)
NatOf(s) == IF s = <<>> THEN 0 ELSE 10 * NatOf(SubSeq(s, 1, Len(s) - 1)) + DigitOf(s[Len(s)])

\* float(text) for the texts "<digits>" and "<digits>.<digit>": tenths, or a ValueError
ParseFloat(text) ==
    LET dots == {i \in 1..Len(text) : text[i] = "."}
    IN IF dots = {} /\ IsDigits(text) THEN [ok |-> TRUE, tenths |-> 10 * NatOf(text)]
       ELSE IF Cardinality(dots) = 1 /\ Len(text) >= 3 /\ text[Len(text) - 1] = "."
               /\ IsDigits(SubSeq(text, 1, Len(text) - 2)) /\ IsDigits(<<text[Len(text)]>>)
       THEN [ok |-> TRUE,
             tenths |-> 10 * NatOf(SubSeq(text, 1, Len(text) - 2)) + DigitOf(text[Len(text)])]
       ELSE [ok |-> FALSE, tenths |-> 0]

\* float(v)
ToFloat(v) == IF v.kind = "str" THEN ParseFloat(StrStrip(v.text)) ELSE [ok |-> TRUE, tenths |-> v.tenths]

\* str(f) of a float given in tenths: the shortest repr, always with a fraction digit
FloatRepr(tenths) == Digits(tenths \div 10) \o <<".">> \o Digits(tenths % 10)

(***************************************************************************)
(* Backend scenario of a write call                                        *)
(*   assets    the bundle that holds each asset id ("none": no bundle)     *)
(*   adown     asset bundles whose every request is answered 404           *)
(*   absent    what a GET of an id the bundle does not hold answers        *)
(*   qpost     per quantity created, what the POST answers: "rev" (id and  *)
(*             revision id), "norev" (id only), "noid" (empty data), "fail"*)
(*   qget      what the GET of a created quantity answers                  *)
(*   post      what the POST of the resource answers: "id", "noid", "fail" *)
(*   patch     what the PATCH answers: "ok", "fail"                        *)
(*   rej       include strings the backend rejects on the read-back        *)
(*   now       the clock of the process, utcoffset its local zone          *)
(***************************************************************************)
NoRev == 0          \* the resource carries no drupal_internal__revision_id (None)
NoId == ""          \* data.get("id") is None

EmptyMap == <<>>

QIds == <<"Q1", "Q2", "Q3">>

AssetAnswer(wb, t, aid) ==
    LookupAnswer([home |-> wb.assets[aid], down |-> wb.adown, rej |-> {}, absent |-> wb.absent],
                 t, aid, NoInclude)

QuantityPostAnswer(wb, qty_type, k) ==
    CASE wb.qpost[k] = "rev" -> Ans(201, Item(qty_type, QIds[k], k))
      [] wb.qpost[k] = "norev" -> Ans(201, Item(qty_type, QIds[k], NoRev))
      [] wb.qpost[k] = "noid" -> Ans(201, EmptyData)
      [] OTHER -> Ans(422, NoData)

QuantityGetAnswer(wb, qty_type, uuid, k) ==
    CASE wb.qget = "rev" -> Ans(200, Item(qty_type, uuid, k))
      [] wb.qget = "norev" -> Ans(200, Item(qty_type, uuid, NoRev))
      [] OTHER -> Ans(404, NoData)

PostAnswer(wb, bundle, newId) ==
    CASE wb.post = "id" -> Ans(201, Item(bundle, newId, 1))
      [] wb.post = "noid" -> Ans(201, EmptyData)
      [] OTHER -> Ans(422, NoData)

PatchAnswer(wb, bundle, id) ==
    IF wb.patch = "ok" THEN Ans(200, Item(bundle, id, 2)) ELSE Ans(404, NoData)

ReadBackAnswer(wb, bundle, id, include) ==
    IF include \in wb.rej THEN Ans(400, NoData) ELSE Ans(200, Item(bundle, id, 1))

\* A request with a JSON body
WriteReq(family, bundle, id, payload) ==
    [family |-> family, bundle |-> bundle, id |-> id, include |-> NoInclude, limit |-> 0,
     offset |-> NoOffset, payload |-> payload]

\* if rels: payload["relationships"] = rels
Relationships(rels) == IF DOMAIN rels = {} THEN EmptyMap ELSE "relationships" :> rels

\* result.get("data", {}).get("id")
DataId(data) == IF data.kind = "item" THEN data.id ELSE NoId

\* result.get("data", {}).get("meta", {}).get("drupal_internal__revision_id")
DataRev(data) == IF data.kind = "item" THEN data.rev ELSE NoRev

(***************************************************************************)
(* tools/logs.py: helpers of the write tools                               *)
(***************************************************************************)

\* A probe that goes on after a hit and keeps the last bundle that answers.
RECURSIVE LookupAssetTypeLast(_, _, _, _, _)
LookupAssetTypeLast(cs, srv, wb, types, aid) ==
    IF types = <<>> THEN [cs |-> cs, type |-> NoType]
    ELSE LET t == Head(types)
             r == ClientGetOp(cs, srv, Req("asset", t, aid, NoInclude, 0, NoOffset),
                              AssetAnswer(wb, t, aid))
             rest == LookupAssetTypeLast(r.cs, srv, wb, Tail(types), aid)
         IN IF r.out.kind = "ok" /\ Body(r).kind = "item" /\ rest.type = NoType
            THEN [cs |-> rest.cs, type |-> t]
            ELSE rest

RECURSIVE LookupAssetType(_, _, _, _, _)
\* The probe of the first bundle answered: a hit names the bundle, anything else
\* (no data, an exception) moves on to the next bundle
LookupProbed(r, srv, wb, types, aid) ==
    IF r.out.kind = "ok" /\ Body(r).kind = "item"
    THEN [cs |-> r.cs, type |-> Head(types)]
    ELSE LookupAssetType(r.cs, srv, wb, Tail(types), aid)

\* _lookup_asset_type: GET asset/<t>/<id> for each bundle in turn; the first
\* bundle that returns data is the type, NoType stands for the ValueError
LookupAssetType(cs, srv, wb, types, aid) ==
    IF types = <<>> THEN [cs |-> cs, type |-> NoType]
    ELSE LookupProbed(ClientGetOp(cs, srv, Req("asset", Head(types), aid, NoInclude, 0, NoOffset),
                                  AssetAnswer(wb, Head(types), aid)),
                      srv, wb, types, aid)

RECURSIVE BuildAssetRels(_, _, _, _, _)
\* The type of the first id was looked up
AssetRelsLooked(l, srv, wb, ids, acc) ==
    IF l.type = NoType
    THEN [cs |-> l.cs, ok |-> FALSE, msg |-> "Asset not found - cannot determine its type",
          rels |-> <<>>]
    ELSE BuildAssetRels(l.cs, srv, wb, Tail(ids),
                        Append(acc, [type |-> <<"asset", l.type>>, id |-> Head(ids)]))

\* _build_asset_rels: one typed entry per id; an unresolved id raises
BuildAssetRels(cs, srv, wb, ids, acc) ==
    IF ids = <<>> THEN [cs |-> cs, ok |-> TRUE, msg |-> "", rels |-> acc]
    ELSE AssetRelsLooked(LookupAssetType(cs, srv, wb, ASSET_TYPES, Head(ids)), srv, wb, ids, acc)

\* _normalize_measure: lower case, " " and "/" replaced by "_"
_normalize_measure(measure) ==
    [i \in 1..Len(measure) |->
        IF measure[i] \in {" ", "/"} THEN "_" ELSE LowerChar(measure[i])]

\* A quantity dict of the quantities argument; the keys are optional
Qty(measure, value, type, label, units_uuid, inventory_adjustment) ==
    [measure |-> measure, value |-> value, type |-> type, label |-> label,
     units_uuid |-> units_uuid, inventory_adjustment |-> inventory_adjustment]

\* x is given and truthy (a non-empty string or list)
Truthy(x) == x # None /\ Len(The(x)) > 0

\* qty.get("type", "standard")
QtyType(qty) == IF qty.type = None THEN "standard" ELSE The(qty.type)

\* _create_quantity, the payload; qty["measure"] raises KeyError when the key is
\* missing, float(qty["value"]) raises ValueError for a string that is no number
QuantityPayload(qty) ==
    IF qty.measure = None
    THEN [ok |-> FALSE, msg |-> "KeyError: measure", payload |-> EmptyMap]
    ELSE IF qty.value # None /\ ~ToFloat(The(qty.value)).ok
    THEN [ok |-> FALSE, msg |-> "ValueError: could not convert string to float",
          payload |-> EmptyMap]
    ELSE [ok |-> TRUE, msg |-> "",
          payload |->
            [type |-> <<"quantity", QtyType(qty)>>,
             attributes |->
                ("measure" :> _normalize_measure(The(qty.measure)))
                @@ (IF qty.value # None
                    THEN "value" :> [decimal |-> FloatRepr(ToFloat(The(qty.value)).tenths)]
                    ELSE EmptyMap)
                @@ (IF Truthy(qty.label) THEN "label" :> The(qty.label) ELSE EmptyMap)
                @@ (IF Truthy(qty.inventory_adjustment)
                    THEN "inventory_adjustment" :> The(qty.inventory_adjustment)
                    ELSE EmptyMap)]
             @@ Relationships(IF Truthy(qty.units_uuid)
                THEN "units" :> [type |-> <<"taxonomy_term", "unit">>, id |-> The(qty.units_uuid)]
                ELSE EmptyMap)]

\* The fallback read answered: its revision id, if any; its failure is swallowed
QuantityRead(g, uuid) ==
    [cs |-> g.cs, ok |-> TRUE, msg |-> "", uuid |-> uuid,
     rev |-> IF g.out.kind = "ok" THEN DataRev(Body(g)) ELSE NoRev]

\* A quantity creation that never reads the quantity back
QuantityPostedNoRead(r, srv, wb, t, k) ==
    IF r.out.kind # "ok"
    THEN [cs |-> r.cs, ok |-> FALSE, msg |-> ErrText(r.out), uuid |-> NoId, rev |-> NoRev]
    ELSE [cs |-> r.cs, ok |-> TRUE, msg |-> "", uuid |-> DataId(Body(r)),
          rev |-> DataRev(Body(r))]

\* The POST answered: when the response carries an id and no revision id, GET
\* the quantity once and take the revision id from there
QuantityPosted(r, srv, wb, t, k) ==
    IF r.out.kind # "ok"
    THEN [cs |-> r.cs, ok |-> FALSE, msg |-> ErrText(r.out), uuid |-> NoId, rev |-> NoRev]
    ELSE IF DataRev(Body(r)) = NoRev /\ DataId(Body(r)) # NoId
    THEN QuantityRead(ClientGetOp(r.cs, srv,
                                  Req("quantity", t, DataId(Body(r)), NoInclude, 0, NoOffset),
                                  QuantityGetAnswer(wb, t, DataId(Body(r)), k)),
                      DataId(Body(r)))
    ELSE [cs |-> r.cs, ok |-> TRUE, msg |-> "", uuid |-> DataId(Body(r)),
          rev |-> DataRev(Body(r))]

\* The payload was built, or building it raised
QuantityWith(p, cs, srv, wb, t, k) ==
    IF ~p.ok THEN [cs |-> cs, ok |-> FALSE, msg |-> p.msg, uuid |-> NoId, rev |-> NoRev]
    ELSE QuantityPosted(ClientPostOp(cs, srv, WriteReq("quantity", t, "", p.payload),
                                     QuantityPostAnswer(wb, t, k)),
                        srv, wb, t, k)

\* _create_quantity: build the payload, POST the quantity, recover the revision id
CreateQuantity(cs, srv, wb, qty, k) ==
    QuantityWith(QuantityPayload(qty), cs, srv, wb, QtyType(qty), k)

\* An entry that always carries a meta member, whatever the revision id is.
QtyEntryAlwaysMeta(qty, uuid, rev) ==
    [type |-> <<"quantity", QtyType(qty)>>, id |-> uuid, meta |-> [target_revision_id |-> rev]]

\* The relationship entry of a created quantity
QtyEntry(qty, uuid, rev) ==
    IF rev # NoRev
    THEN [type |-> <<"quantity", QtyType(qty)>>, id |-> uuid, meta |-> [target_revision_id |-> rev]]
    ELSE [type |-> <<"quantity", QtyType(qty)>>, id |-> uuid]

RECURSIVE BuildQtyRels(_, _, _, _, _, _)
\* The k-th quantity was created, or its creation raised
QtyRelsCreated(q, srv, wb, quantities, k, acc) ==
    IF ~q.ok THEN [cs |-> q.cs, ok |-> FALSE, msg |-> q.msg, rels |-> <<>>]
    ELSE BuildQtyRels(q.cs, srv, wb, quantities, k + 1,
                      Append(acc, QtyEntry(quantities[k], q.uuid, q.rev)))

\* _build_qty_rels: create the quantities in order, one entry each
BuildQtyRels(cs, srv, wb, quantities, k, acc) ==
    IF k > Len(quantities) THEN [cs |-> cs, ok |-> TRUE, msg |-> "", rels |-> acc]
    ELSE QtyRelsCreated(CreateQuantity(cs, srv, wb, quantities[k], k), srv, wb, quantities, k, acc)

RECURSIVE FetchLog(_, _, _, _, _, _)
\* The GET with include level lvl answered
LogFetched(r, srv, wb, log_type, log_id, lvl) ==
    IF r.out.kind = "ok" THEN Return(r.cs, NormalizedLog(Body(r)))
    ELSE IF LogIncludeAttempts[lvl] = NoInclude THEN Raise(r.cs, ErrText(r.out))
    ELSE FetchLog(r.cs, srv, wb, log_type, log_id, lvl + 1)

\* _fetch_log: GET the log with the include levels in turn; the failure of the
\* request without includes is raised
FetchLog(cs, srv, wb, log_type, log_id, lvl) ==
    LogFetched(ClientGetOp(cs, srv,
                           Req("log", log_type, log_id, LogIncludeAttempts[lvl], 0, NoOffset),
                           ReadBackAnswer(wb, log_type, log_id, LogIncludeAttempts[lvl])),
               srv, wb, log_type, log_id, lvl)

(***************************************************************************)
(* tools/logs.py: create_log, update_log                                   *)
(***************************************************************************)
NewLogId == "L9"

\* payload["attributes"][name] = x, when x is given
OptAttr(name, x) == IF x = None THEN EmptyMap ELSE name :> The(x)

\* payload["attributes"]["notes"] = {"value": notes, "format": "default"}
NotesAttr(x) == IF x = None THEN EmptyMap ELSE "notes" :> [value |-> The(x), format |-> "default"]

\* A relationship that is set only when its list is non-empty
RelTruthy(name, taken, entries) == IF taken /\ entries # <<>> THEN name :> entries ELSE EmptyMap

\* rels[name] = {"data": entries}, when the argument is taken
Rel(name, taken, entries) == IF taken THEN name :> entries ELSE EmptyMap

\* [{"type": type, "id": i} for i in ids]
Typed(type, x) == IF x = None THEN <<>> ELSE [i \in 1..Len(The(x)) |-> [type |-> type, id |-> The(x)[i]]]

NoRels(cs) == [cs |-> cs, ok |-> TRUE, msg |-> "", rels |-> <<>>]

\* The optional attributes create_log and update_log share, in the order they are set
LogOptionalAttrs(a, purchase_ts) ==
    NotesAttr(a.notes) @@ OptAttr("flags", a.flags) @@ OptAttr("is_movement", a.is_movement)
    @@ OptAttr("is_group_assignment", a.is_group_assignment) @@ OptAttr("data", a.data)
    @@ OptAttr("lot_number", a.lot_number)
    @@ (IF a.purchase_date = None THEN EmptyMap ELSE "purchase_date" :> purchase_ts)
    @@ OptAttr("source", a.source) @@ OptAttr("method", a.method)

\* The quantities were created: the relationships in the order they are set
LogRelsBuilt(r1, r2, r3, a, taken) ==
    IF ~r3.ok THEN r3
    ELSE [cs |-> r3.cs, ok |-> TRUE, msg |-> "",
          rels |-> Rel("asset", taken.asset_ids, r1.rels)
                   @@ Rel("location", taken.location_ids, r2.rels)
                   @@ Rel("equipment", taken.equipment_ids,
                          Typed(<<"asset", "equipment">>, a.equipment_ids))
                   @@ Rel("owner", taken.owner_ids, Typed(<<"user", "user">>, a.owner_ids))
                   @@ Rel("category", taken.category_ids,
                          Typed(<<"taxonomy_term", "log_category">>, a.category_ids))
                   @@ Rel("quantity", taken.quantities, r3.rels)]

\* The locations were probed: the quantities are created next
LogRelsLocated(r1, r2, srv, wb, a, taken) ==
    IF ~r2.ok THEN r2
    ELSE LogRelsBuilt(r1, r2,
                      IF taken.quantities
                      THEN BuildQtyRels(r2.cs, srv, wb, The(a.quantities), 1, <<>>)
                      ELSE NoRels(r2.cs),
                      a, taken)

\* The assets were probed: the locations are probed next
LogRelsProbed(r1, srv, wb, a, taken) ==
    IF ~r1.ok THEN r1
    ELSE LogRelsLocated(r1,
                        IF taken.location_ids
                        THEN BuildAssetRels(r1.cs, srv, wb, The(a.location_ids), <<>>)
                        ELSE NoRels(r1.cs),
                        srv, wb, a, taken)

\* A variant that creates the quantities before it probes the assets and locations
LogRelsQuantitiesFirst(cs, srv, wb, a, taken) ==
    LET q == IF taken.quantities THEN BuildQtyRels(cs, srv, wb, The(a.quantities), 1, <<>>)
             ELSE NoRels(cs)
        r1 == IF taken.asset_ids THEN BuildAssetRels(q.cs, srv, wb, The(a.asset_ids), <<>>)
              ELSE NoRels(q.cs)
        r2 == IF taken.location_ids THEN BuildAssetRels(r1.cs, srv, wb, The(a.location_ids), <<>>)
              ELSE NoRels(r1.cs)
    IN IF ~q.ok THEN q
       ELSE IF ~r1.ok THEN r1
       ELSE IF ~r2.ok THEN r2
       ELSE LogRelsBuilt(r1, r2, [q EXCEPT !.cs = r2.cs], a, taken)

\* The relationships of a log write: assets and locations are probed for their
\* bundle, the quantities are created, in this order; `taken` tells which
\* arguments the tool takes (create: truthy, update: not None)
LogRels(cs, srv, wb, a, taken) ==
    LogRelsProbed(IF taken.asset_ids THEN BuildAssetRels(cs, srv, wb, The(a.asset_ids), <<>>)
                  ELSE NoRels(cs),
                  srv, wb, a, taken)

RelArgs == {"asset_ids", "location_ids", "equipment_ids", "owner_ids", "category_ids", "quantities"}

\* A create_log that returns the data of the POST response without reading back
LogCreatedInline(p, srv, wb, a) ==
    IF p.out.kind # "ok" THEN Raise(p.cs, ErrText(p.out))
    ELSE Return(p.cs, NormalizedLog(Body(p)))

\* The POST of the log answered: read the log back when the response names it
LogCreated(p, srv, wb, a) ==
    IF p.out.kind # "ok" THEN Raise(p.cs, ErrText(p.out))
    ELSE IF DataId(Body(p)) # NoId THEN FetchLog(p.cs, srv, wb, a.log_type, DataId(Body(p)), 1)
    ELSE Return(p.cs, NormalizedLog(Body(p)))

CreateLogPayload(a, ts, purchase_ts, rels) ==
    [type |-> <<"log", a.log_type>>,
     attributes |-> [name |-> The(a.name), status |-> The(a.status), timestamp |-> ts]
                    @@ LogOptionalAttrs(a, purchase_ts)]
    @@ Relationships(rels)

\* The relationships were built, or building them raised
CreateLogWith(rl, srv, wb, a, ts, purchase_ts) ==
    IF ~rl.ok THEN Raise(rl.cs, rl.msg)
    ELSE LogCreated(ClientPostOp(rl.cs, srv,
                                 WriteReq("log", a.log_type, "",
                                          CreateLogPayload(a, ts, purchase_ts, rl.rels)),
                                 PostAnswer(wb, a.log_type, NewLogId)),
                    srv, wb, a)

create_log(cs, srv, wb, a) ==
    TryExcept(
        IF ~GetClientReady THEN ClientMissing(cs)
        ELSE LET ts == IF a.timestamp # None THEN FromIsoFormat(The(a.timestamp), wb.utcoffset)
                       ELSE [ok |-> TRUE, ts |-> wb.now]
                 pd == IF a.purchase_date # None THEN _iso_to_ts(The(a.purchase_date), wb.utcoffset)
                       ELSE [ok |-> TRUE, ts |-> 0]
             IN IF ~ts.ok \/ ~pd.ok THEN Raise(cs, "ValueError: Invalid isoformat string")
                ELSE CreateLogWith(LogRels(cs, srv, wb, a, [n \in RelArgs |-> Truthy(a[n])]),
                                   srv, wb, a, ts.ts, pd.ts))

\* The PATCH answered: read the log back
LogUpdated(p, srv, wb, a) ==
    IF p.out.kind # "ok" THEN Raise(p.cs, ErrText(p.out))
    ELSE FetchLog(p.cs, srv, wb, a.log_type, a.id, 1)

UpdateLogPayload(a, ts, purchase_ts, rels) ==
    [type |-> <<"log", a.log_type>>, id |-> a.id,
     attributes |-> OptAttr("name", a.name) @@ OptAttr("status", a.status)
                    @@ (IF a.timestamp = None THEN EmptyMap ELSE "timestamp" :> ts)
                    @@ LogOptionalAttrs(a, purchase_ts)]
    @@ Relationships(rels)

\* The relationships were built, or building them raised
UpdateLogWith(rl, srv, wb, a, ts, purchase_ts) ==
    IF ~rl.ok THEN Raise(rl.cs, rl.msg)
    ELSE LogUpdated(ClientPatchOp(rl.cs, srv,
                                  WriteReq("log", a.log_type, a.id,
                                           UpdateLogPayload(a, ts, purchase_ts, rl.rels)),
                                  PatchAnswer(wb, a.log_type, a.id)),
                    srv, wb, a)

update_log(cs, srv, wb, a) ==
    TryExcept(
        IF ~GetClientReady THEN ClientMissing(cs)
        ELSE LET ts == IF a.timestamp # None THEN _iso_to_ts(The(a.timestamp), wb.utcoffset)
                       ELSE [ok |-> TRUE, ts |-> 0]
                 pd == IF a.purchase_date # None THEN _iso_to_ts(The(a.purchase_date), wb.utcoffset)
                       ELSE [ok |-> TRUE, ts |-> 0]
             IN IF ~ts.ok \/ ~pd.ok THEN Raise(cs, "ValueError: Invalid isoformat string")
                ELSE UpdateLogWith(LogRels(cs, srv, wb, a, [n \in RelArgs |-> a[n] # None]),
                                   srv, wb, a, ts.ts, pd.ts))

(***************************************************************************)
(* tools/assets.py: create_asset, update_asset                             *)
(***************************************************************************)
NewAssetId == "A9"

\* _resolve_parent_rels, the probe of one parent: the first bundle that returns it
RECURSIVE ProbeParent(_, _, _, _, _)
ProbeParent(cs, srv, wb, types, pid) ==
    IF types = <<>> THEN [cs |-> cs, type |-> NoType]
    ELSE LET t == Head(types)
             r == ClientGetOp(cs, srv, Req("asset", t, pid, NoInclude, 0, NoOffset),
                              AssetAnswer(wb, t, pid))
         IN IF r.out.kind = "ok" /\ Body(r).kind = "item"
            THEN [cs |-> r.cs, type |-> t]
            ELSE ProbeParent(r.cs, srv, wb, Tail(types), pid)

\* A variant that attaches a parent no bundle returns as a land asset
RECURSIVE ResolveParentRelsKeep(_, _, _, _, _)
ResolveParentRelsKeep(cs, srv, wb, parent_ids, acc) ==
    IF parent_ids = <<>> THEN [cs |-> cs, rels |-> acc]
    ELSE LET l == ProbeParent(cs, srv, wb, ASSET_TYPES, Head(parent_ids))
         IN ResolveParentRelsKeep(l.cs, srv, wb, Tail(parent_ids),
                Append(acc, [type |-> <<"asset", IF l.type = NoType THEN "land" ELSE l.type>>,
                             id |-> Head(parent_ids)]))

\* _resolve_parent_rels: a parent no bundle returns is left out
RECURSIVE _resolve_parent_rels(_, _, _, _, _)
_resolve_parent_rels(cs, srv, wb, parent_ids, acc) ==
    IF parent_ids = <<>> THEN [cs |-> cs, rels |-> acc]
    ELSE LET l == ProbeParent(cs, srv, wb, ASSET_TYPES, Head(parent_ids))
         IN _resolve_parent_rels(l.cs, srv, wb, Tail(parent_ids),
                IF l.type = NoType THEN acc
                ELSE Append(acc, [type |-> <<"asset", l.type>>, id |-> Head(parent_ids)]))

\* rels[name] = {"data": {"type": type, "id": x}}, when x is given
OneRel(name, type, x) == IF x = None THEN EmptyMap ELSE name :> [type |-> type, id |-> The(x)]

\* The optional attributes create_asset and update_asset share
AssetOptionalAttrs(a, birth_ts) ==
    NotesAttr(a.notes) @@ OptAttr("sex", a.sex)
    @@ (IF a.birthdate = None THEN EmptyMap ELSE "birthdate" :> birth_ts)
    @@ OptAttr("is_sterile", a.is_sterile) @@ OptAttr("manufacturer", a.manufacturer)
    @@ OptAttr("model", a.model) @@ OptAttr("serial_number", a.serial_number)
    @@ OptAttr("land_type", a.land_type) @@ OptAttr("structure_type", a.structure_type)

\* The taxonomy relationships create_asset and update_asset share
AssetTermRels(a) ==
    OneRel("animal_type", <<"taxonomy_term", "animal_type">>, a.animal_type_id)
    @@ Rel("plant_type", a.plant_type_ids # None,
           Typed(<<"taxonomy_term", "plant_type">>, a.plant_type_ids))
    @@ Rel("season", a.season_ids # None, Typed(<<"taxonomy_term", "season">>, a.season_ids))
    @@ OneRel("equipment_type", <<"taxonomy_term", "equipment_type">>, a.equipment_type_id)
    @@ Rel("material_type", a.material_type_ids # None,
           Typed(<<"taxonomy_term", "material_type">>, a.material_type_ids))

create_asset(cs, srv, wb, a) ==
    TryExcept(
        IF ~GetClientReady THEN ClientMissing(cs)
        ELSE LET bd == IF a.birthdate # None THEN _iso_to_ts(The(a.birthdate), wb.utcoffset)
                       ELSE [ok |-> TRUE, ts |-> 0]
             IN IF ~bd.ok THEN Raise(cs, "ValueError: Invalid isoformat string")
                ELSE LET pr == IF Truthy(a.parent_ids)
                               THEN _resolve_parent_rels(cs, srv, wb, The(a.parent_ids), <<>>)
                               ELSE [cs |-> cs, rels |-> <<>>]
                         payload ==
                            [type |-> <<"asset", a.asset_type>>,
                             attributes |-> [name |-> The(a.name), status |-> The(a.status)]
                                            @@ AssetOptionalAttrs(a, bd.ts)]
                             @@ Relationships(Rel("parent", pr.rels # <<>>, pr.rels)
                                               @@ AssetTermRels(a))
                         p == ClientPostOp(pr.cs, srv, WriteReq("asset", a.asset_type, "", payload),
                                           PostAnswer(wb, a.asset_type, NewAssetId))
                     IN IF p.out.kind # "ok" THEN Raise(p.cs, ErrText(p.out))
                        ELSE Return(p.cs, NormalizedAsset(Body(p))))

update_asset(cs, srv, wb, a) ==
    TryExcept(
        IF ~GetClientReady THEN ClientMissing(cs)
        ELSE LET bd == IF a.birthdate # None THEN _iso_to_ts(The(a.birthdate), wb.utcoffset)
                       ELSE [ok |-> TRUE, ts |-> 0]
             IN IF ~bd.ok THEN Raise(cs, "ValueError: Invalid isoformat string")
                ELSE LET pr == IF a.parent_ids # None
                               THEN _resolve_parent_rels(cs, srv, wb, The(a.parent_ids), <<>>)
                               ELSE [cs |-> cs, rels |-> <<>>]
                         payload ==
                            [type |-> <<"asset", a.asset_type>>, id |-> a.id,
                             attributes |-> OptAttr("name", a.name) @@ OptAttr("status", a.status)
                                            @@ AssetOptionalAttrs(a, bd.ts)]
                             @@ Relationships(Rel("parent", a.parent_ids # None, pr.rels)
                                               @@ AssetTermRels(a))
                         p == ClientPatchOp(pr.cs, srv,
                                            WriteReq("asset", a.asset_type, a.id, payload),
                                            PatchAnswer(wb, a.asset_type, a.id))
                     IN IF p.out.kind # "ok" THEN Raise(p.cs, ErrText(p.out))
                        ELSE Return(p.cs, NormalizedAsset(Body(p))))

(***************************************************************************)
(* tools/terms.py, tools/plans.py: create and update                       *)
(***************************************************************************)
NewTermId == "T9"
NewPlanId == "P9"

NormalizedTerm(data) == [error |-> FALSE, id |-> data.id, vocabulary |-> data.bundle]

\* payload["attributes"]["description"] = {"value": description, "format": "default"}
DescriptionAttr(x) ==
    IF x = None THEN EmptyMap ELSE "description" :> [value |-> The(x), format |-> "default"]

create_term(cs, srv, wb, a) ==
    TryExcept(
        IF ~GetClientReady THEN ClientMissing(cs)
        ELSE LET payload == [type |-> <<"taxonomy_term", a.vocabulary>>,
                             attributes |-> [name |-> The(a.name)] @@ DescriptionAttr(a.description)]
                 p == ClientPostOp(cs, srv, WriteReq("taxonomy_term", a.vocabulary, "", payload),
                                   PostAnswer(wb, a.vocabulary, NewTermId))
             IN IF p.out.kind # "ok" THEN Raise(p.cs, ErrText(p.out))
                ELSE Return(p.cs, NormalizedTerm(Body(p))))

update_term(cs, srv, wb, a) ==
    TryExcept(
        IF ~GetClientReady THEN ClientMissing(cs)
        ELSE LET payload == [type |-> <<"taxonomy_term", a.vocabulary>>, id |-> a.id,
                             attributes |-> OptAttr("name", a.name) @@ DescriptionAttr(a.description)]
                 p == ClientPatchOp(cs, srv, WriteReq("taxonomy_term", a.vocabulary, a.id, payload),
                                    PatchAnswer(wb, a.vocabulary, a.id))
             IN IF p.out.kind # "ok" THEN Raise(p.cs, ErrText(p.out))
                ELSE Return(p.cs, NormalizedTerm(Body(p))))

create_plan(cs, srv, wb, a) ==
    TryExcept(
        IF ~GetClientReady THEN ClientMissing(cs)
        ELSE LET payload == [type |-> <<"plan", a.plan_type>>,
                             attributes |-> [name |-> The(a.name), status |-> The(a.status)]
                                            @@ NotesAttr(a.notes) @@ OptAttr("flags", a.flags)]
                             @@ Relationships(Rel("owner", Truthy(a.owner_ids),
                                                   Typed(<<"user", "user">>, a.owner_ids)))
                 p == ClientPostOp(cs, srv, WriteReq("plan", a.plan_type, "", payload),
                                   PostAnswer(wb, a.plan_type, NewPlanId))
             IN IF p.out.kind # "ok" THEN Raise(p.cs, ErrText(p.out))
                ELSE Return(p.cs, NormalizedPlan(Body(p))))

update_plan(cs, srv, wb, a) ==
    TryExcept(
        IF ~GetClientReady THEN ClientMissing(cs)
        ELSE LET payload == [type |-> <<"plan", a.plan_type>>, id |-> a.id,
                             attributes |-> OptAttr("name", a.name) @@ OptAttr("status", a.status)
                                            @@ NotesAttr(a.notes) @@ OptAttr("flags", a.flags)]
                             @@ Relationships(Rel("owner", a.owner_ids # None,
                                                   Typed(<<"user", "user">>, a.owner_ids)))
                 p == ClientPatchOp(cs, srv, WriteReq("plan", a.plan_type, a.id, payload),
                                    PatchAnswer(wb, a.plan_type, a.id))
             IN IF p.out.kind # "ok" THEN Raise(p.cs, ErrText(p.out))
                ELSE Return(p.cs, NormalizedPlan(Body(p))))

(***************************************************************************)
(* Tool calls                                                              *)
(***************************************************************************)
\* Backend behaviours of one call: normal, token endpoint down, every token refused.
ToolSrvs == {Srv(FALSE, 0), Srv(FALSE, 1), Srv(TRUE, 0)}

Prefix(seq, n) == SubSeq(seq, 1, IF n < Len(seq) THEN n ELSE Len(seq))
Range(seq) == {seq[i] : i \in 1..Len(seq)}

\* Bundles a scenario may single out: the first MaxHome of the family, and the last.
Singled(types) == Range(Prefix(types, MaxHome)) \cup {types[Len(types)]}

Downs(types) == {{}} \cup {{t} : t \in Singled(types)} \cup {Range(types)}

\* Sets of include strings the backend rejects: the first k levels for any k, and
\* any of the first MaxRej levels.
Rejects(levels) ==
    {Range(Prefix(levels, k)) : k \in 0..Len(levels)} \cup SUBSET Range(Prefix(levels, MaxRej))

LookupBackends(types, levels) ==
    [home : {"none"} \cup Singled(types), down : Downs(types),
     rej : Rejects(levels), absent : {404, 200}]

\* The host may call a registered tool once the previous result is delivered.
Callable(name) == Idle /\ name \in registered /\ issued < MaxIssued

ToolCall(name, args, r) ==
    /\ client' = IF GetClientReady THEN "ready" ELSE client
    /\ access_token' = r.cs.tok
    /\ issued' = r.cs.issued
    /\ call' = [tool |-> name, args |-> args, tok0 |-> access_token,
                discarded0 |-> hist.discarded, wire |-> r.cs.wire, result |-> r.ret]
    /\ hist' = Recorded(hist, r.cs.wire)
    /\ UNCHANGED <<environ, registered, revoked, qcase>>

Working == Srv(FALSE, 0)

\* Scenarios of a call: every backend in bes while tokens are issued and accepted,
\* and one backend while the token endpoint fails or every token is refused.
Scenarios(bes, dead) ==
    [srv : {Working}, be : bes] \cup [srv : ToolSrvs \ {Working}, be : {dead}]

DeadLookup == [home |-> "none", down |-> {}, rej |-> {}, absent |-> 404]

GetLog ==
    /\ Callable("get_log")
    /\ \E sc \in Scenarios(LookupBackends(LOG_TYPES, LogIncludeAttempts), DeadLookup),
          log_type \in {NoType} \cup Singled(LOG_TYPES) :
           ToolCall("get_log", [id |-> "L1", type |-> log_type],
                    get_log(StartCs, sc.srv, sc.be, "L1", log_type))

GetAsset ==
    /\ Callable("get_asset")
    /\ \E sc \in Scenarios(LookupBackends(ASSET_TYPES, AssetIncludeAttempts), DeadLookup),
          asset_type \in {NoType} \cup Singled(ASSET_TYPES) :
           ToolCall("get_asset", [id |-> "A1", type |-> asset_type],
                    get_asset(StartCs, sc.srv, sc.be, "A1", asset_type))

GetPlan ==
    /\ Callable("get_plan")
    /\ \E sc \in Scenarios(LookupBackends(<<"rotational_grazing", "crop">>, <<>>), DeadLookup),
          plan_type \in {NoType, "rotational_grazing"} :
           ToolCall("get_plan", [id |-> "P1", type |-> plan_type],
                    get_plan(StartCs, sc.srv, sc.be, "P1", plan_type))

\* Epoch seconds of 1970-01-01T23:59:59, 2000-02-29T00:00:00 and 2024-03-01T00:00:00
Timestamps == {86399, 951782400, 1709251200}

Names == {<<"b">>, <<"B", "a">>, <<"a", "Z">>}

LogPool(b) == {[bundle |-> b, id |-> <<b, ts>>, ts |-> ts, name |-> <<>>] : ts \in Timestamps}
NamePool(b) == {[bundle |-> b, id |-> <<b, n>>, ts |-> 0, name |-> n] : n \in Names}

\* The arrangements of the subsets of pool with at most MaxCat elements that the
\* backend's own sort allows (backendSorted: newest first).
Arrangements(pool, backendSorted, most) ==
    {xs \in UNION {[1..n -> pool] : n \in 0..most} :
        /\ \A i, j \in 1..Len(xs) : i # j => xs[i] # xs[j]
        /\ backendSorted => \A i \in 1..Len(xs) - 1 : xs[i].ts >= xs[i + 1].ts}

Pool(family, b) == IF family = "log" THEN LogPool(b) ELSE NamePool(b)

\* Backends of a merged list: the first and the last bundle of the family hold
\* resources; none, the first, the second or every bundle is down.
MergedBackends(types, family) ==
    LET a == types[1]
        z == types[Len(types)]
    IN {[cat |-> (a :> ca) @@ (z :> cz), down |-> d] :
            ca \in Arrangements(Pool(family, a), family = "log", MaxCat),
            cz \in Arrangements(Pool(family, z), family = "log", MaxCat - 1),
            d \in {{}, {a}, {types[2]}, Range(types)}}

\* Backends of a list of one bundle
BundleBackends(bundle, family) ==
    {[cat |-> (bundle :> c), down |-> d] :
        c \in Arrangements(Pool(family, bundle), family = "log", MaxCat), d \in {{}, {bundle}}}

DeadBackend == [cat |-> <<>>, down |-> {}]

\* The backend cannot be reached: every request of the family fails to connect
UnreachableBackend(types) == [cat |-> <<>>, down |-> Range(types), unreachable |-> TRUE]

\* A bundle that holds one resource more than a page carries, newest first
LargeCatalog(b) ==
    [i \in 1..PageLimitCap + 1 |->
        [bundle |-> b, id |-> <<b, i>>, ts |-> SecondsPerDay * (PageLimitCap + 1 - i),
         name |-> <<"a">>]]

\* The backend whose first bundle is large and whose last bundle holds one resource
LargeBackend(types) ==
    [cat |-> (types[1] :> LargeCatalog(types[1]))
             @@ (types[Len(types)] :>
                    <<[bundle |-> types[Len(types)], id |-> <<types[Len(types)], 0>>, ts |-> 0,
                       name |-> <<"b">>]>>),
     down |-> {}]

\* Limits at and above the cap of a page
LargeLimits == {PageLimitCap, PageLimitCap + MaxLimit}

Limits == 1..MaxLimit
Offsets == {0, 1}

ListArgs(type, limit, offset) == [type |-> type, limit |-> limit, offset |-> offset]

\* The record of a get_logs call also keeps the logs the backend holds per
\* sub-type (those that match the filters), which no response shows in full
LogListArgs(type, limit, offset, be) ==
    [type |-> type, limit |-> limit, offset |-> offset, held |-> be.cat]

GetLogs ==
    /\ Callable("get_logs")
    /\ \/ \E sc \in Scenarios(MergedBackends(LOG_TYPES, "log"), DeadBackend),
             limit \in Limits, offset \in Offsets :
              ToolCall("get_logs", LogListArgs(NoType, limit, offset, sc.be),
                       get_logs(StartCs, sc.srv, sc.be, NoType, limit, offset))
       \/ \E sc \in Scenarios(BundleBackends(LOG_TYPES[1], "log"), DeadBackend),
             limit \in Limits, offset \in Offsets :
              ToolCall("get_logs", LogListArgs(LOG_TYPES[1], limit, offset, sc.be),
                       get_logs(StartCs, sc.srv, sc.be, LOG_TYPES[1], limit, offset))
       \/ \E limit \in LargeLimits, type \in {NoType, LOG_TYPES[1]} :
              ToolCall("get_logs", LogListArgs(type, limit, 0, LargeBackend(LOG_TYPES)),
                       get_logs(StartCs, Working, LargeBackend(LOG_TYPES), type, limit, 0))
       \/ \E limit \in Limits, type \in {NoType, LOG_TYPES[1]} :
              ToolCall("get_logs", LogListArgs(type, limit, 0, UnreachableBackend(LOG_TYPES)),
                       get_logs(StartCs, Working, UnreachableBackend(LOG_TYPES), type, limit, 0))

GetAssets ==
    /\ Callable("get_assets")
    /\ \/ \E sc \in Scenarios(MergedBackends(ASSET_TYPES, "asset"), DeadBackend),
             limit \in Limits, offset \in Offsets :
              ToolCall("get_assets", ListArgs(NoType, limit, offset),
                       get_assets(StartCs, sc.srv, sc.be, NoType, limit, offset))
       \/ \E sc \in Scenarios(BundleBackends(ASSET_TYPES[1], "asset"), DeadBackend),
             limit \in Limits, offset \in Offsets :
              ToolCall("get_assets", ListArgs(ASSET_TYPES[1], limit, offset),
                       get_assets(StartCs, sc.srv, sc.be, ASSET_TYPES[1], limit, offset))
       \/ \E limit \in LargeLimits, type \in {NoType, ASSET_TYPES[1]} :
              ToolCall("get_assets", ListArgs(type, limit, 0),
                       get_assets(StartCs, Working, LargeBackend(ASSET_TYPES), type, limit, 0))
       \/ \E limit \in Limits, type \in {NoType, ASSET_TYPES[1]} :
              ToolCall("get_assets", ListArgs(type, limit, 0),
                       get_assets(StartCs, Working, UnreachableBackend(ASSET_TYPES), type, limit, 0))

GetPlans ==
    /\ Callable("get_plans")
    /\ \/ \E sc \in Scenarios(BundleBackends("rotational_grazing", "plan"), DeadBackend),
             limit \in Limits, offset \in Offsets, plan_type \in {NoType, "rotational_grazing"} :
              ToolCall("get_plans", ListArgs(plan_type, limit, offset),
                       get_plans(StartCs, sc.srv, sc.be, plan_type, limit, offset))
       \/ \E limit \in LargeLimits :
              ToolCall("get_plans", ListArgs("rotational_grazing", limit, 0),
                       get_plans(StartCs, Working, LargeBackend(<<"rotational_grazing">>),
                                 "rotational_grazing", limit, 0))

GetQuantities ==
    /\ Callable("get_quantities")
    /\ \/ \E sc \in Scenarios(MergedBackends(QUANTITY_TYPES, "quantity"), DeadBackend),
             limit \in Limits, offset \in Offsets :
              ToolCall("get_quantities", ListArgs(NoType, limit, offset),
                       get_quantities(StartCs, sc.srv, sc.be, NoType, limit, offset))
       \/ \E sc \in Scenarios(BundleBackends(QUANTITY_TYPES[1], "quantity"), DeadBackend),
             limit \in Limits, offset \in Offsets :
              ToolCall("get_quantities", ListArgs(QUANTITY_TYPES[1], limit, offset),
                       get_quantities(StartCs, sc.srv, sc.be, QUANTITY_TYPES[1], limit, offset))
       \/ \E limit \in LargeLimits, type \in {NoType, QUANTITY_TYPES[1]} :
              ToolCall("get_quantities", ListArgs(type, limit, 0),
                       get_quantities(StartCs, Working, LargeBackend(QUANTITY_TYPES), type, limit, 0))

GetTerms ==
    /\ Callable("get_terms")
    /\ \E sc \in Scenarios(BundleBackends("unit", "taxonomy_term"), DeadBackend),
          limit \in Limits, offset \in Offsets :
           ToolCall("get_terms", ListArgs("unit", limit, offset),
                    get_terms(StartCs, sc.srv, sc.be, "unit", limit, offset))

GetUsers ==
    /\ Callable("get_users")
    /\ \E sc \in Scenarios(BundleBackends("user", "user"), DeadBackend),
          limit \in Limits, offset \in Offsets :
           ToolCall("get_users", ListArgs("user", limit, offset),
                    get_users(StartCs, sc.srv, sc.be, limit, offset))

GetFarmInfo ==
    /\ Callable("get_farm_info")
    /\ \E srv \in ToolSrvs, down \in {{}, {""}} :
           ToolCall("get_farm_info", [type |-> NoType],
                    get_farm_info(StartCs, srv, [down |-> down]))

(***************************************************************************)
(* Write tool calls                                                        *)
(***************************************************************************)
AssetIds == {"A1", "A2"}

Q1 == Qty(Some(<<"W", "e", "i", "g", "h", "t">>), Some(FloatValue(125)), None, None, None, None)
Q2 == Qty(Some(<<"c", "o", "u", "n", "t">>), Some(IntValue(3)), Some("material"),
          Some("bags"), Some("U1"), Some("increment"))
QNoValue == Qty(Some(<<"a", "r", "e", "a">>), None, None, Some(""), None, None)
QText == Qty(Some(<<"k", "g", "/", "h", "a">>), Some(StrValue(<<" ", "7", ".", "5">>)), None, None, None, None)
QNoMeasure == Qty(None, Some(IntValue(1)), None, None, None, None)
QNoNumber == Qty(Some(<<"w">>), Some(StrValue(<<"a", "b", "c">>)), None, None, None, None)

QuantityLists == {<<>>, <<Q1>>, <<Q1, Q2>>, <<QNoValue>>, <<QText, Q1>>, <<QNoMeasure>>,
                  <<Q1, QNoNumber>>}

QPosts == {<<"rev", "rev">>, <<"norev", "norev">>, <<"norev", "rev">>, <<"noid", "rev">>,
           <<"rev", "fail">>, <<"fail", "rev">>}

Outcomes == {"ok", "noid", "fail"}

Clock == DaysFromCivil(2024, 3, 1) * SecondsPerDay

WbDefault ==
    [assets |-> [i \in AssetIds |-> "land"], adown |-> {}, absent |-> 404,
     qpost |-> <<"rev", "rev">>, qget |-> "rev", post |-> "id", patch |-> "ok",
     rej |-> {}, now |-> Clock, utcoffset |-> 0]

\* The backend takes the write ("ok"), takes it and answers without data ("noid"),
\* or refuses it ("fail")
WithOutcome(wb, o) ==
    [wb EXCEPT !.post = IF o = "ok" THEN "id" ELSE o, !.patch = IF o = "fail" THEN "fail" ELSE "ok"]

AssetHomes == [AssetIds -> {"none"} \cup Singled(ASSET_TYPES)]

ProbeBackends ==
    {[WbDefault EXCEPT !.assets = h, !.adown = d, !.absent = ab] :
        h \in AssetHomes, d \in {{}, {ASSET_TYPES[1]}}, ab \in {404, 200}}

QuantityBackends ==
    {WithOutcome([WbDefault EXCEPT !.qpost = p, !.qget = g], o) :
        p \in QPosts, g \in {"rev", "norev", "fail"}, o \in Outcomes}

ReadBackBackends ==
    {WithOutcome([WbDefault EXCEPT !.rej = Range(Prefix(LogIncludeAttempts, k))], o) :
        k \in 0..Len(LogIncludeAttempts), o \in Outcomes}

ZoneBackends == {[WbDefault EXCEPT !.utcoffset = z] : z \in {0, 7200}}

IsoArgs == {Iso("date", 2024, 3, 1, 0), Iso("utc", 2024, 3, 1, 36000),
            Iso("naive", 2024, 3, 1, 36000), Iso("bad", 0, 0, 0, 0)}

LogArgs ==
    [id |-> "L1", log_type |-> "harvest", name |-> Some("n"), status |-> Some("done"),
     notes |-> None, timestamp |-> None, asset_ids |-> None, location_ids |-> None,
     owner_ids |-> None, category_ids |-> None, equipment_ids |-> None, flags |-> None,
     is_movement |-> None, is_group_assignment |-> None, quantities |-> None, data |-> None,
     lot_number |-> None, purchase_date |-> None, source |-> None, method |-> None]

LogArgsFull ==
    [LogArgs EXCEPT !.notes = Some("t"), !.flags = Some(<<"monitor">>), !.is_movement = Some(FALSE),
                    !.is_group_assignment = Some(TRUE), !.data = Some("{}"),
                    !.lot_number = Some("7"), !.source = Some("s"), !.method = Some("m"),
                    !.owner_ids = Some(<<"U1">>), !.category_ids = Some(<<"C1">>),
                    !.equipment_ids = Some(<<"E1">>)]

LogArgsCleared ==
    [LogArgs EXCEPT !.name = None, !.status = None, !.owner_ids = Some(<<>>),
                    !.category_ids = Some(<<>>), !.equipment_ids = Some(<<>>),
                    !.flags = Some(<<>>)]

Case(a, wb) == [a |-> a, wb |-> wb]

LogCases ==
    {Case([LogArgs EXCEPT !.quantities = Some(q)], wb) :
        q \in QuantityLists, wb \in QuantityBackends}
    \cup {Case([LogArgs EXCEPT !.asset_ids = x, !.location_ids = y, !.quantities = q], wb) :
            x \in {Some(<<>>), Some(<<"A1">>), Some(<<"A1", "A2">>)},
            y \in {None, Some(<<"A2">>)}, q \in {None, Some(<<Q1>>)}, wb \in ProbeBackends}
    \cup {Case([b EXCEPT !.timestamp = t, !.purchase_date = p], wb) :
            b \in {LogArgs, LogArgsFull, LogArgsCleared}, t \in {None} \cup {Some(i) : i \in IsoArgs},
            p \in {None, Some(Iso("date", 2024, 2, 29, 0)), Some(Iso("bad", 0, 0, 0, 0))},
            wb \in ZoneBackends}
    \cup {Case(LogArgs, wb) : wb \in ReadBackBackends}

\* The one call made while the token endpoint fails or every token is refused
LogCaseDead == Case([LogArgs EXCEPT !.asset_ids = Some(<<"A1">>), !.quantities = Some(<<Q1>>)], WbDefault)

\* The arguments as the tool function receives them: name is required, an
\* omitted status takes the default of the signature
Defaulted(a, status) == [a EXCEPT !.status = IF @ = None THEN Some(status) ELSE @]

CreateLog ==
    /\ Callable("create_log")
    /\ \E sc \in Scenarios(LogCases, LogCaseDead) :
           /\ sc.be.a.name # None
           /\ ToolCall("create_log", Defaulted(sc.be.a, "pending"),
                       create_log(StartCs, sc.srv, sc.be.wb, Defaulted(sc.be.a, "pending")))

UpdateLog ==
    /\ Callable("update_log")
    /\ \E sc \in Scenarios(LogCases, LogCaseDead) :
           ToolCall("update_log", sc.be.a, update_log(StartCs, sc.srv, sc.be.wb, sc.be.a))

AssetArgs ==
    [id |-> "A1", asset_type |-> "animal", name |-> Some("n"), status |-> Some("active"),
     notes |-> None, parent_ids |-> None, sex |-> None, birthdate |-> None, is_sterile |-> None,
     animal_type_id |-> None, plant_type_ids |-> None, season_ids |-> None,
     manufacturer |-> None, model |-> None, serial_number |-> None,
     equipment_type_id |-> None, land_type |-> None, structure_type |-> None,
     material_type_ids |-> None]

AssetArgsFull ==
    [AssetArgs EXCEPT !.notes = Some("t"), !.sex = Some("F"), !.is_sterile = Some(FALSE),
                      !.animal_type_id = Some("T1"), !.plant_type_ids = Some(<<"T2">>),
                      !.season_ids = Some(<<>>), !.manufacturer = Some("m"), !.model = Some("x"),
                      !.serial_number = Some("1"), !.equipment_type_id = Some("T3"),
                      !.land_type = Some("bed"), !.structure_type = Some("barn"),
                      !.material_type_ids = Some(<<"T4">>)]

AssetArgsBare == [AssetArgs EXCEPT !.name = None, !.status = None]

AssetCases ==
    {Case([AssetArgs EXCEPT !.parent_ids = x], WithOutcome(wb, o)) :
        x \in {Some(<<>>), Some(<<"A1">>), Some(<<"A2", "A1">>)}, wb \in ProbeBackends,
        o \in {"ok", "fail"}}
    \cup {Case([b EXCEPT !.birthdate = d], WithOutcome(wb, o)) :
            b \in {AssetArgs, AssetArgsFull, AssetArgsBare},
            d \in {None} \cup {Some(i) : i \in IsoArgs}, wb \in ZoneBackends, o \in Outcomes}

AssetCaseDead == Case([AssetArgs EXCEPT !.parent_ids = Some(<<"A1">>)], WbDefault)

CreateAsset ==
    /\ Callable("create_asset")
    /\ \E sc \in Scenarios(AssetCases, AssetCaseDead) :
           /\ sc.be.a.name # None
           /\ ToolCall("create_asset", Defaulted(sc.be.a, "active"),
                       create_asset(StartCs, sc.srv, sc.be.wb, Defaulted(sc.be.a, "active")))

UpdateAsset ==
    /\ Callable("update_asset")
    /\ \E sc \in Scenarios(AssetCases, AssetCaseDead) :
           ToolCall("update_asset", sc.be.a, update_asset(StartCs, sc.srv, sc.be.wb, sc.be.a))

TermArgs == [id |-> "T1", vocabulary |-> "unit", name |-> Some("kg"), description |-> None]

TermCases ==
    {Case([TermArgs EXCEPT !.name = n, !.description = d], WithOutcome(WbDefault, o)) :
        n \in {None, Some("kg")}, d \in {None, Some("d")}, o \in Outcomes}

CreateTerm ==
    /\ Callable("create_term")
    /\ \E sc \in Scenarios(TermCases, Case(TermArgs, WbDefault)) :
           /\ sc.be.a.name # None
           /\ ToolCall("create_term", sc.be.a, create_term(StartCs, sc.srv, sc.be.wb, sc.be.a))

UpdateTerm ==
    /\ Callable("update_term")
    /\ \E sc \in Scenarios(TermCases, Case(TermArgs, WbDefault)) :
           ToolCall("update_term", sc.be.a, update_term(StartCs, sc.srv, sc.be.wb, sc.be.a))

PlanArgs ==
    [id |-> "P1", plan_type |-> "rotational_grazing", name |-> Some("n"),
     status |-> Some("active"), notes |-> None, owner_ids |-> None, flags |-> None]

PlanCases ==
    {Case([PlanArgs EXCEPT !.name = n, !.status = n, !.notes = t, !.flags = f, !.owner_ids = w],
          WithOutcome(WbDefault, o)) :
        n \in {None, Some("n")}, t \in {None, Some("t")}, f \in {None, Some(<<>>)},
        w \in {None, Some(<<>>), Some(<<"U1">>)}, o \in Outcomes}

CreatePlan ==
    /\ Callable("create_plan")
    /\ \E sc \in Scenarios(PlanCases, Case(PlanArgs, WbDefault)) :
           /\ sc.be.a.name # None
           /\ ToolCall("create_plan", Defaulted(sc.be.a, "planning"),
                       create_plan(StartCs, sc.srv, sc.be.wb, Defaulted(sc.be.a, "planning")))

UpdatePlan ==
    /\ Callable("update_plan")
    /\ \E sc \in Scenarios(PlanCases, Case(PlanArgs, WbDefault)) :
           ToolCall("update_plan", sc.be.a, update_plan(StartCs, sc.srv, sc.be.wb, sc.be.a))

Next ==
    \/ GetLog \/ GetAsset \/ GetPlan
    \/ GetLogs \/ GetAssets \/ GetPlans \/ GetQuantities \/ GetTerms \/ GetUsers \/ GetFarmInfo
    \/ CreateLog \/ UpdateLog \/ CreateAsset \/ UpdateAsset
    \/ CreateTerm \/ UpdateTerm \/ CreatePlan \/ UpdatePlan
    \/ Deliver

Spec == Init /\ [][Next]_vars

(***************************************************************************)
(* Quantity value normalisation (tools/logs.py, tools/quantities.py)       *)
(*                                                                         *)
(* The value attribute is whatever JSON the backend sent: null, a boolean, *)
(* a number, a string, a list or an object. Numbers are kept in tenths;    *)
(* a result is the exact quotient num/den.                                 *)
(***************************************************************************)
NullValue == [kind |-> "null"]
BoolValue(b) == [kind |-> "bool", b |-> b]
ListValue(items) == [kind |-> "list", items |-> items]
DictValue(members) == [kind |-> "dict", members |-> members]

\* bool(v)
PyTruthy(v) ==
    CASE v.kind = "null" -> FALSE
      [] v.kind = "bool" -> v.b
      [] v.kind \in {"int", "float"} -> v.tenths # 0
      [] v.kind = "str" -> v.text # <<>>
      [] v.kind = "list" -> v.items # <<>>
      [] v.kind = "dict" -> DOMAIN v.members # {}

Returned(num, den) == [out |-> "ok", num |-> num, den |-> den]
Raised(exc) == [out |-> exc, num |-> 0, den |-> 1]

\* float(v): the number, a ValueError for a text that is no number, a TypeError
\* for null, a list or an object
PyFloat(v) ==
    CASE v.kind = "bool" -> Returned(IF v.b THEN 10 ELSE 0, 10)
      [] v.kind \in {"int", "float"} -> Returned(v.tenths, 10)
      [] v.kind = "str" ->
            IF ParseFloat(StrStrip(v.text)).ok
            THEN Returned(ParseFloat(StrStrip(v.text)).tenths, 10)
            ELSE Raised("ValueError")
      [] OTHER -> Raised("TypeError")

\* int(v): a float is truncated towards zero, a text must be a whole number
PyInt(v) ==
    CASE v.kind = "bool" -> Returned(IF v.b THEN 1 ELSE 0, 1)
      [] v.kind = "int" -> Returned(v.tenths \div 10, 1)
      [] v.kind = "float" ->
            Returned(IF v.tenths >= 0 THEN v.tenths \div 10 ELSE -((-v.tenths) \div 10), 1)
      [] v.kind = "str" ->
            IF IsDigits(StrStrip(v.text)) THEN Returned(NatOf(StrStrip(v.text)), 1)
            ELSE Raised("ValueError")
      [] OTHER -> Raised("TypeError")

\* value.get(key)
DictGet(value, key) == IF key \in DOMAIN value.members THEN value.members[key] ELSE NullValue

NoneResult == [out |-> "ok", num |-> 0, den |-> 0]

\* The fraction branch: int(numerator) / int(denominator); ValueError and
\* ZeroDivisionError fall through to None, any other exception leaves the function
ParseFraction(value) ==
    IF DictGet(value, "numerator").kind # "null" /\ PyTruthy(DictGet(value, "denominator"))
    THEN LET n == PyInt(DictGet(value, "numerator"))
             d == PyInt(DictGet(value, "denominator"))
         IN IF n.out = "ValueError" THEN NoneResult
            ELSE IF n.out # "ok" THEN Raised(n.out)
            ELSE IF d.out = "ValueError" THEN NoneResult
            ELSE IF d.out # "ok" THEN Raised(d.out)
            ELSE IF d.num = 0 THEN NoneResult
            ELSE Returned(n.num, d.num)
    ELSE NoneResult

\* A fraction branch that lets no exception out.
ParseFractionGuarded(value) ==
    IF ParseFraction(value).out = "ok" THEN ParseFraction(value) ELSE NoneResult

\* tools/logs.py
_parse_qty_value(value) ==
    IF ~PyTruthy(value) THEN NoneResult
    ELSE IF value.kind # "dict" THEN Raised("AttributeError")
    ELSE IF DictGet(value, "decimal").kind # "null" /\ PyFloat(DictGet(value, "decimal")).out = "ok"
    THEN PyFloat(DictGet(value, "decimal"))
    ELSE ParseFraction(value)

\* tools/quantities.py: the same text
quantities_parse_qty_value(value) == _parse_qty_value(value)

\* The JSON values a member of the value object, or the value itself, may be
QtyMemberValues ==
    {NullValue, BoolValue(TRUE), IntValue(0), IntValue(3), IntValue(-2), FloatValue(15),
     StrValue(<<>>), StrValue(<<"2">>), StrValue(<<"1", ".", "5">>), StrValue(<<" ", "4", "\n">>),
     StrValue(<<"0">>), StrValue(<<"a", "b", "c">>), ListValue(<<>>), ListValue(<<IntValue(1)>>),
     DictValue(EmptyMap)}

Member(key, x) == IF x = None THEN EmptyMap ELSE key :> The(x)

QtyInputs ==
    QtyMemberValues
    \cup {DictValue(Member("decimal", d) @@ Member("numerator", n) @@ Member("denominator", m)) :
            d \in {None} \cup {Some(v) : v \in QtyMemberValues},
            n \in {None} \cup {Some(v) : v \in QtyMemberValues},
            m \in {None} \cup {Some(v) : v \in QtyMemberValues}}

InitQty ==
    /\ environ = [FARMOS_URL |-> GoodUrl, FARMOS_READ_ONLY |-> Unset]
    /\ registered = RegisteredTools(environ)
    /\ client = "none"
    /\ access_token = NoToken
    /\ issued = 0
    /\ revoked = 0
    /\ call = NoCall
    /\ qcase \in {[fn |-> "input", value |-> v] : v \in QtyInputs}
    /\ hist = NoHistory

\* _normalize_quantity of tools/logs.py normalises the value attribute
ParseLogQtyValue ==
    /\ qcase.fn = "input"
    /\ qcase' = [fn |-> "logs", value |-> qcase.value, result |-> _parse_qty_value(qcase.value)]
    /\ UNCHANGED <<environ, registered, client, access_token, issued, revoked, call, hist>>

\* _normalize_quantity of tools/quantities.py normalises the value attribute
ParseQuantityQtyValue ==
    /\ qcase.fn = "input"
    /\ qcase' = [fn |-> "quantities", value |-> qcase.value,
                 result |-> quantities_parse_qty_value(qcase.value)]
    /\ UNCHANGED <<environ, registered, client, access_token, issued, revoked, call, hist>>

NextQty == ParseLogQtyValue \/ ParseQuantityQtyValue

SpecQty == InitQty /\ [][NextQty]_vars

(***************************************************************************)
(* Relationship references of a normalised record                          *)
(* A resource of the bench has a compound type tag and, per relationship,  *)
(* the "data" member the server sent; the side-loaded resources come as    *)
(* the "included" list of the response.  Texts are sequences of characters.*)
(***************************************************************************)
TypeSep == <<"-", "-">>

\* s.split("--", 1)[-1]: the text after the first "--", the whole text when there is none
SplitLast(s) ==
    LET at == {i \in 1..(Len(s) - 1) : SubSeq(s, i, i + 1) = TypeSep}
    IN IF at = {} THEN s
       ELSE LET i == CHOOSE a \in at : \A b \in at : a <= b IN SubSeq(s, i + 2, Len(s))

\* rels.get(key, {}).get("data")
RelData(rels, key) == IF key \in DOMAIN rels THEN rels[key] ELSE NullValue

\* the items of a relationship's data: the array, or the one object of a to-one relationship
RefItems(rel_data) ==
    IF rel_data.kind = "list" THEN rel_data.items
    ELSE IF PyTruthy(rel_data) THEN <<rel_data>> ELSE <<>>

IsRefItem(r) == r.kind = "dict" /\ PyTruthy(DictGet(r, "id"))

\* tools/logs.py _refs: the {id, type} pairs of a relationship's data
_refs(rel_data) ==
    LET kept == SelectSeq(RefItems(rel_data), IsRefItem)
    IN [i \in 1..Len(kept) |->
            ("id" :> DictGet(kept[i], "id").text)
            @@ ("type" :> SplitLast(DictGet(kept[i], "type").text))]

\* tools/assets.py: the same text
assets_refs(rel_data) == _refs(rel_data)

\* {r["id"]: r for r in result.get("included", [])}: a later resource replaces an earlier one
IncludedMap(included) ==
    [id \in {included[i].id : i \in 1..Len(included)} |->
        included[CHOOSE i \in 1..Len(included) :
                    /\ included[i].id = id
                    /\ \A j \in 1..Len(included) : included[j].id = id => j <= i]]

\* inc.get("attributes", {}).get("name")
NameOf(inc) == IF "name" \in DOMAIN inc.attributes THEN inc.attributes["name"] ELSE NullValue

\* A variant of _resolve_names that names every reference, side-loaded or not
ResolveNamesAlways(refs, included) ==
    [i \in 1..Len(refs) |->
        refs[i] @@ ("name" :> IF refs[i]["id"] \in DOMAIN included
                               THEN NameOf(included[refs[i]["id"]]) ELSE NullValue)]

\* tools/logs.py _resolve_names: a reference whose id is in the map gets the target's name
_resolve_names(refs, included) ==
    [i \in 1..Len(refs) |->
        IF refs[i]["id"] \in DOMAIN included
        THEN ("name" :> NameOf(included[refs[i]["id"]])) @@ refs[i]
        ELSE refs[i]]

\* tools/assets.py: the same text
assets_resolve_names(refs, included) == _resolve_names(refs, included)

\* refs = _refs(...); if inc: _resolve_names(refs, inc)
LogRefs(rels, key, inc) ==
    IF DOMAIN inc # {} THEN _resolve_names(_refs(RelData(rels, key)), inc)
    ELSE _refs(RelData(rels, key))

AssetRefs(rels, key, inc) ==
    IF DOMAIN inc # {} THEN assets_resolve_names(assets_refs(RelData(rels, key)), inc)
    ELSE assets_refs(RelData(rels, key))

\* result[key] = refs only when there are any
WhenAny(key, refs) == IF refs # <<>> THEN key :> refs ELSE EmptyMap

\* tools/logs.py _normalize_log: the type and the reference lists of the flat record
_normalize_log(resource, included) ==
    LET inc == IncludedMap(included)
    IN [type |-> SplitLast(resource.type),
        refs |-> ("assets" :> LogRefs(resource.rels, "asset", inc))
                 @@ ("locations" :> LogRefs(resource.rels, "location", inc))
                 @@ ("equipment" :> LogRefs(resource.rels, "equipment", inc))
                 @@ ("owners" :> LogRefs(resource.rels, "owner", inc))
                 @@ ("categories" :> LogRefs(resource.rels, "category", inc))]

AnimalChars == <<"a", "n", "i", "m", "a", "l">>
PlantChars == <<"p", "l", "a", "n", "t">>
EquipmentChars == <<"e", "q", "u", "i", "p", "m", "e", "n", "t">>
MaterialChars == <<"m", "a", "t", "e", "r", "i", "a", "l">>
LandChars == <<"l", "a", "n", "d">>

\* the type-specific reference lists of an asset, each present only when it has a member
AssetTypeRefs(asset_type, rels, inc) ==
    IF asset_type = AnimalChars THEN WhenAny("animal_type", AssetRefs(rels, "animal_type", inc))
    ELSE IF asset_type = PlantChars
    THEN WhenAny("plant_type", AssetRefs(rels, "plant_type", inc))
         @@ WhenAny("season", AssetRefs(rels, "season", inc))
    ELSE IF asset_type = EquipmentChars
    THEN WhenAny("equipment_type", AssetRefs(rels, "equipment_type", inc))
    ELSE IF asset_type = MaterialChars
    THEN WhenAny("material_type", AssetRefs(rels, "material_type", inc))
    ELSE EmptyMap

\* tools/assets.py _normalize_asset: the type and the reference lists of the flat record
_normalize_asset(resource, included) ==
    LET inc == IncludedMap(included)
        asset_type == SplitLast(resource.type)
    IN [type |-> asset_type,
        refs |-> ("parents" :> AssetRefs(resource.rels, "parent", inc))
                 @@ ("owners" :> AssetRefs(resource.rels, "owner", inc))
                 @@ AssetTypeRefs(asset_type, resource.rels, inc)]

\* Compound type tags as the server sends them, and three malformed ones
AssetChars == <<"a", "s", "s", "e", "t">>
TagAssetLand == AssetChars \o TypeSep \o LandChars
TagUser == <<"u", "s", "e", "r">> \o TypeSep \o <<"u", "s", "e", "r">>
TagTwice == <<"a">> \o TypeSep \o <<"b">> \o TypeSep \o <<"c">>
TagDashes == <<"t", "-", "x", "-", "-", "-", "y">>
TagPlain == <<"u", "s", "e", "r">>

RefItem(id, tag) == DictValue(("id" :> StrValue(id)) @@ ("type" :> StrValue(tag)))

IdX == <<"x">>
IdY == <<"y">>
IdZ == <<"z">>

\* What the "data" member of a relationship may be
RelDatas ==
    {NullValue,
     DictValue(EmptyMap),
     RefItem(IdY, TagUser),
     ListValue(<<>>),
     ListValue(<<RefItem(IdX, TagAssetLand)>>),
     ListValue(<<RefItem(IdX, TagTwice), RefItem(IdY, TagUser)>>),
     ListValue(<<DictValue("type" :> StrValue(TagUser)), RefItem(IdY, TagPlain)>>),
     ListValue(<<StrValue(IdX), RefItem(<<>>, TagUser), RefItem(IdX, TagDashes)>>),
     ListValue(<<DictValue(("id" :> NullValue) @@ ("type" :> StrValue(TagUser))), RefItem(IdZ, TagUser)>>)}

Inc(id, attributes) == [id |-> id, attributes |-> attributes]
NameA == "name" :> StrValue(<<"A">>)
NameB == "name" :> StrValue(<<"B">>)

\* What the "included" list of a response may be
Includeds ==
    {<<>>,
     <<Inc(IdX, NameA)>>,
     <<Inc(IdY, EmptyMap)>>,
     <<Inc(IdY, "name" :> NullValue)>>,
     <<Inc(IdX, NameA), Inc(IdX, NameB)>>,
     <<Inc(IdX, NameA), Inc(IdY, NameB)>>,
     <<Inc(IdZ, NameA)>>}

RefTypes ==
    {AssetChars \o TypeSep \o t : t \in {AnimalChars, PlantChars, EquipmentChars, MaterialChars, LandChars}}
    \cup {<<"l", "o", "g">> \o TypeSep \o <<"a", "c", "t", "i", "v", "i", "t", "y">>}

\* The relationships of a bench resource: two data members spread over the keys
RelsOf(d1, d2) ==
    LET keys1 == {"asset", "parent", "equipment", "category", "plant_type", "equipment_type"}
        keys2 == {"location", "owner", "animal_type", "season", "material_type"}
    IN (IF d1 = None THEN EmptyMap ELSE [k \in keys1 |-> The(d1)])
       @@ (IF d2 = None THEN EmptyMap ELSE [k \in keys2 |-> The(d2)])

RefInputs ==
    {[fn |-> "resource", resource |-> [type |-> t, rels |-> RelsOf(d1, d2)], included |-> inc] :
        t \in RefTypes,
        d1 \in {None} \cup {Some(d) : d \in RelDatas},
        d2 \in {None} \cup {Some(d) : d \in RelDatas},
        inc \in Includeds}

InitRefs ==
    /\ environ = [FARMOS_URL |-> GoodUrl, FARMOS_READ_ONLY |-> Unset]
    /\ registered = RegisteredTools(environ)
    /\ client = "none"
    /\ access_token = NoToken
    /\ issued = 0
    /\ revoked = 0
    /\ call = NoCall
    /\ qcase \in RefInputs
    /\ hist = NoHistory

\* get_log normalises the resource it read with the resources the response side-loaded
NormalizeLog ==
    /\ qcase.fn = "resource"
    /\ qcase' = [fn |-> "log", resource |-> qcase.resource, included |-> qcase.included,
                 result |-> _normalize_log(qcase.resource, qcase.included)]
    /\ UNCHANGED <<environ, registered, client, access_token, issued, revoked, call, hist>>

\* get_asset normalises the resource it read with the resources the response side-loaded
NormalizeAsset ==
    /\ qcase.fn = "resource"
    /\ qcase' = [fn |-> "asset", resource |-> qcase.resource, included |-> qcase.included,
                 result |-> _normalize_asset(qcase.resource, qcase.included)]
    /\ UNCHANGED <<environ, registered, client, access_token, issued, revoked, call, hist>>

NextRefs == NormalizeLog \/ NormalizeAsset

SpecRefs == InitRefs /\ [][NextRefs]_vars

(***************************************************************************)
(* Query parameters of get_logs (tools/logs.py)                            *)
(* Texts are sequences of characters; an argument left out is None.        *)
(***************************************************************************)
MidnightSuffix == <<"T", "0", "0", ":", "0", "0", ":", "0", "0", "Z">>
EndOfDaySuffix == <<"T", "2", "3", ":", "5", "9", ":", "5", "9", "Z">>

\* bool(arg) of an optional text: given and not empty
TextGiven(arg) == arg # None /\ The(arg) # <<>>

\* "T" in s
HasT(s) == \E i \in 1..Len(s) : s[i] = "T"

\* A variant that completes the upper bound to midnight as well
BuildDateParamsMidnight(params, date_from, date_to) ==
    (IF TextGiven(date_from)
     THEN ("filter[date_from][condition][path]" :> <<"t", "i", "m", "e", "s", "t", "a", "m", "p">>)
          @@ ("filter[date_from][condition][value]" :>
                 IF HasT(The(date_from)) THEN The(date_from) ELSE The(date_from) \o MidnightSuffix)
          @@ ("filter[date_from][condition][operator]" :> <<">", "=">>)
     ELSE EmptyMap)
    @@ (IF TextGiven(date_to)
        THEN ("filter[date_to][condition][path]" :> <<"t", "i", "m", "e", "s", "t", "a", "m", "p">>)
             @@ ("filter[date_to][condition][value]" :>
                    IF HasT(The(date_to)) THEN The(date_to) ELSE The(date_to) \o MidnightSuffix)
             @@ ("filter[date_to][condition][operator]" :> <<"<", "=">>)
        ELSE EmptyMap)
    @@ params

\* _build_date_params: the range filter on the timestamp, added to params
_build_date_params(params, date_from, date_to) ==
    (IF TextGiven(date_from)
     THEN ("filter[date_from][condition][path]" :> <<"t", "i", "m", "e", "s", "t", "a", "m", "p">>)
          @@ ("filter[date_from][condition][value]" :>
                 IF HasT(The(date_from)) THEN The(date_from) ELSE The(date_from) \o MidnightSuffix)
          @@ ("filter[date_from][condition][operator]" :> <<">", "=">>)
     ELSE EmptyMap)
    @@ (IF TextGiven(date_to)
        THEN ("filter[date_to][condition][path]" :> <<"t", "i", "m", "e", "s", "t", "a", "m", "p">>)
             @@ ("filter[date_to][condition][value]" :>
                    IF HasT(The(date_to)) THEN The(date_to) ELSE The(date_to) \o EndOfDaySuffix)
             @@ ("filter[date_to][condition][operator]" :> <<"<", "=">>)
        ELSE EmptyMap)
    @@ params

\* get_logs: the parameters built before the page parameters are added
LogFilterParams(status, asset_id, date_from, date_to) ==
    _build_date_params(
        ("sort" :> <<"-", "t", "i", "m", "e", "s", "t", "a", "m", "p">>)
        @@ (IF TextGiven(status) THEN "filter[status]" :> The(status) ELSE EmptyMap)
        @@ (IF TextGiven(asset_id) THEN "filter[asset.id]" :> The(asset_id) ELSE EmptyMap),
        date_from, date_to)

June1 == <<"2", "0", "2", "4", "-", "0", "6", "-", "0", "1">>
June30 == <<"2", "0", "2", "4", "-", "0", "6", "-", "3", "0">>
TenOClock == <<"T", "1", "0", ":", "0", "0", ":", "0", "0">>

\* Range bounds a caller may pass: left out, empty, a date, a date with a time
DateBounds ==
    {None, Some(<<>>), Some(June1), Some(June30), Some(June1 \o MidnightSuffix),
     Some(June30 \o TenOClock), Some(June30 \o TenOClock \o <<"Z">>),
     Some(June1 \o TenOClock \o <<"+", "0", "2", ":", "0", "0">>)}

DateInputs ==
    {[fn |-> "filters", status |-> s, asset_id |-> a, date_from |-> f, date_to |-> t] :
        s \in {None, Some(<<"d", "o", "n", "e">>)}, a \in {None, Some(<<"A", "1">>)},
        f \in DateBounds, t \in DateBounds}

InitDates ==
    /\ environ = [FARMOS_URL |-> GoodUrl, FARMOS_READ_ONLY |-> Unset]
    /\ registered = RegisteredTools(environ)
    /\ client = "none"
    /\ access_token = NoToken
    /\ issued = 0
    /\ revoked = 0
    /\ call = NoCall
    /\ qcase \in DateInputs
    /\ hist = NoHistory

\* get_logs builds the filter parameters of its requests
BuildLogParams ==
    /\ qcase.fn = "filters"
    /\ qcase' = [fn |-> "params", status |-> qcase.status, asset_id |-> qcase.asset_id,
                 date_from |-> qcase.date_from, date_to |-> qcase.date_to,
                 params |-> LogFilterParams(qcase.status, qcase.asset_id,
                                            qcase.date_from, qcase.date_to)]
    /\ UNCHANGED <<environ, registered, client, access_token, issued, revoked, call, hist>>

NextDates == BuildLogParams

SpecDates == InitDates /\ [][NextDates]_vars

(***************************************************************************)
(* server.py: the parameterized prompt templates. A text is the sequence   *)
(* of its characters; an f-string is the concatenation of its literal      *)
(* parts and the value, a plain string literal is taken as written.        *)
(***************************************************************************)
\* f"I want to review the '{season}' growing season. ": the text before the field
SeasonLogOpening ==
    <<"I", " ", "w", "a", "n", "t", " ", "t", "o", " ", "r", "e", "v", "i", "e", "w",
      " ", "t", "h", "e", " ", "'">>

\* the text after the field
SeasonLogClosing ==
    <<"'", " ", "g", "r", "o", "w", "i", "n", "g", " ", "s", "e", "a", "s", "o", "n",
      ".", " ">>

\* the plain string literals that follow the f-string of season_log
SeasonLogPlain ==
    <<"U", "s", "e", " ", "g", "e", "t", "_", "l", "o", "g", "s", " ", "t", "o", " ",
      "f", "e", "t", "c", "h", " ", "s", "e", "e", "d", "i", "n", "g", ",", " ", "t",
      "r", "a", "n", "s", "p", "l", "a", "n", "t", "i", "n", "g", ",", " ", "i", "n",
      "p", "u", "t", ",", " ", "h", "a", "r", "v", "e", "s", "t", ",", " ", "a", "n",
      "d", " ", "o", "b", "s", "e", "r", "v", "a", "t", "i", "o", "n", " ", "l", "o",
      "g", "s", ".", " ", "F", "o", "r", " ", "s", "e", "e", "d", "i", "n", "g", "s",
      " ", "a", "n", "d", " ", "t", "r", "a", "n", "s", "p", "l", "a", "n", "t", "i",
      "n", "g", "s", " ", "f", "i", "l", "t", "e", "r", " ", "b", "y", " ", "t", "h",
      "e", " ", "r", "e", "l", "e", "v", "a", "n", "t", " ", "d", "a", "t", "e", " ",
      "r", "a", "n", "g", "e", " ", "f", "o", "r", " ", "t", "h", "i", "s", " ", "s",
      "e", "a", "s", "o", "n", ".", " ", "S", "u", "m", "m", "a", "r", "i", "s", "e",
      ":", " ", "w", "h", "a", "t", " ", "w", "a", "s", " ", "p", "l", "a", "n", "t",
      "e", "d", ",", " ", "w", "h", "a", "t", " ", "i", "n", "p", "u", "t", "s", " ",
      "w", "e", "r", "e", " ", "a", "p", "p", "l", "i", "e", "d", ",", " ", "w", "h",
      "a", "t", " ", "w", "a", "s", " ", "h", "a", "r", "v", "e", "s", "t", "e", "d",
      ",", " ", "a", "n", "d", " ", "a", "n", "y", " ", "n", "o", "t", "a", "b", "l",
      "e", " ", "o", "b", "s", "e", "r", "v", "a", "t", "i", "o", "n", "s", ".", " ",
      "H", "i", "g", "h", "l", "i", "g", "h", "t", " ", "s", "u", "c", "c", "e", "s",
      "s", "e", "s", " ", "a", "n", "d", " ", "i", "s", "s", "u", "e", "s", ".">>

season_log(season) == SeasonLogOpening \o season \o SeasonLogClosing \o SeasonLogPlain

\* f"I want to see everything recorded for the asset named '{asset_name}'. "
AssetHistoryOpening ==
    <<"I", " ", "w", "a", "n", "t", " ", "t", "o", " ", "s", "e", "e", " ", "e", "v",
      "e", "r", "y", "t", "h", "i", "n", "g", " ", "r", "e", "c", "o", "r", "d", "e",
      "d", " ", "f", "o", "r", " ", "t", "h", "e", " ", "a", "s", "s", "e", "t", " ",
      "n", "a", "m", "e", "d", " ", "'">>

AssetHistoryClosing ==
    <<"'", ".", " ">>

\* the plain string literals that follow the f-string of asset_history
AssetHistoryPlain ==
    <<"F", "i", "r", "s", "t", " ", "u", "s", "e", " ", "g", "e", "t", "_", "a", "s",
      "s", "e", "t", "s", " ", "w", "i", "t", "h", " ", "n", "a", "m", "e", "=", "'",
      "{", "a", "s", "s", "e", "t", "_", "n", "a", "m", "e", "}", "'", " ", "t", "o",
      " ", "f", "i", "n", "d", " ", "i", "t", "s", " ", "U", "U", "I", "D", ".", " ",
      "T", "h", "e", "n", " ", "u", "s", "e", " ", "g", "e", "t", "_", "l", "o", "g",
      "s", " ", "w", "i", "t", "h", " ", "t", "h", "a", "t", " ", "a", "s", "s", "e",
      "t", "_", "i", "d", " ", "t", "o", " ", "f", "e", "t", "c", "h", " ", "a", "l",
      "l", " ", "r", "e", "l", "a", "t", "e", "d", " ", "l", "o", "g", "s", ".", " ",
      "P", "r", "e", "s", "e", "n", "t", " ", "a", " ", "c", "h", "r", "o", "n", "o",
      "l", "o", "g", "i", "c", "a", "l", " ", "h", "i", "s", "t", "o", "r", "y", " ",
      "o", "f", " ", "e", "v", "e", "r", "y", "t", "h", "i", "n", "g", " ", "t", "h",
      "a", "t", " ", "h", "a", "s", " ", "h", "a", "p", "p", "e", "n", "e", "d", " ",
      "w", "i", "t", "h", " ", "t", "h", "i", "s", " ", "a", "s", "s", "e", "t", ".">>

asset_history(asset_name) ==
    AssetHistoryOpening \o asset_name \o AssetHistoryClosing \o AssetHistoryPlain

\* longest value a prompt is given
MaxArg == 3

PromptChars == {"F", "1", " ", "-"}

\* The values a caller may pass to a prompt: texts of at most MaxArg characters
PromptValues == UNION {[1..n -> PromptChars] : n \in 0..MaxArg}

PromptInputs ==
    {[fn |-> "prompt", name |-> p, arg |-> v] :
        p \in {"season_log", "asset_history"}, v \in PromptValues}

InitPrompts ==
    /\ environ = [FARMOS_URL |-> GoodUrl, FARMOS_READ_ONLY |-> Unset]
    /\ registered = RegisteredTools(environ)
    /\ client = "none"
    /\ access_token = NoToken
    /\ issued = 0
    /\ revoked = 0
    /\ call = NoCall
    /\ qcase \in PromptInputs
    /\ hist = NoHistory

Produced(text) == [fn |-> "text", name |-> qcase.name, arg |-> qcase.arg, text |-> text]

SeasonLog ==
    /\ qcase.fn = "prompt" /\ qcase.name = "season_log"
    /\ qcase' = Produced(season_log(qcase.arg))
    /\ UNCHANGED <<environ, registered, client, access_token, issued, revoked, call, hist>>

AssetHistory ==
    /\ qcase.fn = "prompt" /\ qcase.name = "asset_history"
    /\ qcase' = Produced(asset_history(qcase.arg))
    /\ UNCHANGED <<environ, registered, client, access_token, issued, revoked, call, hist>>

NextPrompts == SeasonLog \/ AssetHistory

SpecPrompts == InitPrompts /\ [][NextPrompts]_vars

(***************************************************************************)
(* Reading the wire log                                                    *)
(***************************************************************************)
ApiIdx(w) == {i \in 1..Len(w) : w[i].kind = "api"}
TokIdx(w) == {i \in 1..Len(w) : w[i].kind = "token"}
Min(S) == CHOOSE x \in S : \A y \in S : x <= y
Max(S) == CHOOSE x \in S : \A y \in S : x >= y

IsTransportCall == call.tool \in {"client.get", "client.post", "client.patch"}

\* The first API attempt of the call was answered 401.
First401(w) == ApiIdx(w) # {} /\ w[Min(ApiIdx(w))].status = 401

\* C1 as stated: after a 401 on the first attempt the token is dropped, then exactly
\* one token exchange and exactly one retried request follow; a second 401 fails
\* the call and nothing follows it.
C1_AsStated ==
    (IsTransportCall /\ First401(call.wire)) =>
        LET w == call.wire
            i == Min(ApiIdx(w))
        IN /\ Cardinality({j \in TokIdx(w) : j > i}) = 1
           /\ Cardinality({j \in ApiIdx(w) : j > i}) = 1
           /\ access_token # w[i].bearer
           /\ (w[Len(w)].status = 401 => call.result.kind = "http" /\ call.result.status = 401)

\* C1 amended: after a 401 on the first attempt the token is dropped and exactly one
\* token exchange follows; exactly one retried request follows when that exchange
\* succeeds and none when it fails; a 401 on the retry fails the call with nothing
\* sent after it.
C1_RetryOnce ==
    (IsTransportCall /\ First401(call.wire)) =>
        LET w == call.wire
            i == Min(ApiIdx(w))
            toks == {j \in TokIdx(w) : j > i}
            apis == {j \in ApiIdx(w) : j > i}
        IN /\ Cardinality(toks) = 1
           /\ i + 1 \in toks
           /\ access_token # w[i].bearer
           /\ Cardinality(apis) = (IF w[i + 1].status = 200 THEN 1 ELSE 0)
           /\ \A j \in apis : j = Len(w) /\ w[j].bearer = w[i + 1].bearer
                              /\ w[j].bearer # w[i].bearer
                              /\ w[j].method = w[i].method /\ w[j].req = w[i].req
           /\ call.result.kind # "ok" <=> (apis = {} \/ w[Len(w)].status \notin 200..299)
           /\ (w[Len(w)].status = 401 => call.result.kind = "http" /\ call.result.status = 401)

\* A call whose first attempt and whose retry were both answered 401.
C1_Witness ==
    /\ IsTransportCall
    /\ First401(call.wire)
    /\ Cardinality(ApiIdx(call.wire)) = 2
    /\ call.wire[Len(call.wire)].status = 401
    /\ call.result.kind = "http"

\* The token cached when wire event j was sent.
CachedAt(w, tok0, j) ==
    LET before == {k \in TokIdx(w) : k < j /\ w[k].status = 200}
        dropped == {k \in ApiIdx(w) : k < j /\ w[k].status = 401}
    IN IF before # {} /\ (dropped = {} \/ Max(before) > Max(dropped)) THEN w[Max(before)].bearer
       ELSE IF dropped # {} THEN NoToken
       ELSE tok0

MethodOf(tool) ==
    CASE tool = "client.get" -> "GET" [] tool = "client.post" -> "POST" [] tool = "client.patch" -> "PATCH"

IsToolCall == call.tool \in ReadTools \cup WriteTools

Ok2xx(e) == e.kind = "api" /\ e.status \in 200..299

\* A token exchange that was refused, or a request that got no 2xx answer.
FailedEvent(e) == (e.kind = "token" /\ e.status # 200) \/ (e.kind = "api" /\ ~Ok2xx(e))

MergedTools == {"get_logs", "get_assets", "get_plans", "get_quantities"}

\* A list call without a sub-type, made with a client.
IsMerged == call.tool \in MergedTools /\ call.args.type = NoType /\ CanCreateClient(environ)

IsoGiven(a) ==
    (IF "timestamp" \in DOMAIN a THEN a.timestamp ELSE {})
    \cup (IF "purchase_date" \in DOMAIN a THEN a.purchase_date ELSE {})
    \cup (IF "birthdate" \in DOMAIN a THEN a.birthdate ELSE {})

\* An argument from which no payload can be built: a date that is no ISO date, a
\* quantity without a measure or with a value that is no number.
BadPayload(a) ==
    \/ \E iso \in IsoGiven(a) : iso.form = "bad"
    \/ /\ "quantities" \in DOMAIN a
       /\ \E qs \in a.quantities : \E k \in 1..Len(qs) :
              \/ qs[k].measure = {}
              \/ \E v \in qs[k].value : v.kind = "str" /\ v.text = <<"a", "b", "c">>

\* C2 as stated: a tool returns JSON and never raises, and the JSON is an error
\* object whenever anything failed during the call: the client could not be
\* built, a token exchange or a request failed, or a payload could not be built.
C2_AsStated ==
    IsToolCall =>
        /\ call.result.kind = "return"
        /\ (\/ ~CanCreateClient(environ)
            \/ \E i \in 1..Len(call.wire) : FailedEvent(call.wire[i])
            \/ (call.tool \in WriteTools /\ BadPayload(call.args)))
           => call.result.json.error

\* C2 amended: a tool returns JSON and never raises. The JSON is an error object
\* when the client cannot be built (nothing is sent then), when a payload cannot
\* be built, or when the last exchange of the call failed, except in a list call
\* without a sub-type: that call absorbs every failed sub-type request and
\* returns a success object.
C2_ErrorObject ==
    IsToolCall =>
        LET w == call.wire
        IN /\ call.result.kind = "return"
           /\ ~CanCreateClient(environ) => call.result.json.error /\ w = <<>>
           /\ (call.tool \in WriteTools /\ BadPayload(call.args)) => call.result.json.error
           /\ (w # <<>> /\ FailedEvent(w[Len(w)]) /\ ~IsMerged) => call.result.json.error
           /\ IsMerged => ~call.result.json.error

\* A create_log whose POST of the log was refused and that returned an error object.
C2_Witness ==
    /\ call.tool = "create_log"
    /\ call.wire # <<>>
    /\ LET e == call.wire[Len(call.wire)]
       IN e.kind = "api" /\ e.method = "POST" /\ e.req.family = "log" /\ e.status = 422
    /\ call.result.kind = "return"
    /\ call.result.json.error

(***************************************************************************)
(* Merged lists                                                            *)
(***************************************************************************)
\* The resources the successful list responses of the call carried.
ListedBy(w) == UNION {Range(w[i].data.items) : i \in {j \in ApiIdx(w) : Ok2xx(w[j])}}

\* The same, in the order of the responses.
RECURSIVE ListedInOrder(_)
ListedInOrder(w) ==
    IF w = <<>> THEN <<>>
    ELSE ListedInOrder(SubSeq(w, 1, Len(w) - 1))
         \o (IF Ok2xx(w[Len(w)]) THEN w[Len(w)].data.items ELSE <<>>)

RawOf(w, id) == CHOOSE r \in ListedBy(w) : r.id = id

\* r sorts strictly before s in the natural order of the tool's family: newer
\* first for logs, lower-cased name ascending for assets and plans.
Before(tool, r, s) ==
    CASE tool = "get_logs" -> r.ts > s.ts
      [] tool \in {"get_assets", "get_plans"} -> SeqLess(Codes(StrLower(r.name)), Codes(StrLower(s.name)))
      [] OTHER -> FALSE

\* C4: a list call without a sub-type never returns an error because sub-type
\* requests failed: it returns min(limit, n) of the n resources the successful
\* sub-type responses carried, each once, in the natural order of the family,
\* and no resource left out sorts before one returned (quantities: the first
\* `limit` in response order).
C4_MergedSurvivesFailure ==
    IsMerged =>
        LET w == call.wire
            out == call.result.json.items
            raw == ListedBy(w)
            src == [k \in 1..Len(out) |-> RawOf(w, out[k].id)] \o <<>>
            inOrder == ListedInOrder(w)
        IN /\ ~call.result.json.error
           /\ call.result.json.returned = Len(out)
           /\ Len(out) = Min({call.args.limit, Cardinality(raw)})
           /\ \A k \in 1..Len(out) : \E r \in raw : r.id = out[k].id /\ r.bundle = out[k].type
           /\ \A j, k \in 1..Len(out) : j < k =>
                 /\ out[j].id # out[k].id
                 /\ ~Before(call.tool, src[k], src[j])
           /\ \A r \in raw : (\A k \in 1..Len(out) : out[k].id # r.id) =>
                 \A k \in 1..Len(out) : ~Before(call.tool, r, src[k])
           /\ call.tool = "get_logs" =>
                 \A k \in 1..Len(out) - 1 : ~SeqLess(out[k].timestamp, out[k + 1].timestamp)
           /\ call.tool = "get_quantities" =>
                 \A k \in 1..Len(out) : out[k].id = inOrder[k].id

\* A get_logs without a sub-type in which one sub-type request failed, the others
\* carried three logs, and the two returned start with a log of the last sub-type.
C4_Witness ==
    /\ call.tool = "get_logs"
    /\ IsMerged
    /\ \E i \in ApiIdx(call.wire) : call.wire[i].status = 404
    /\ Cardinality(ListedBy(call.wire)) = 3
    /\ call.args.limit = 2
    /\ Len(call.result.json.items) = 2
    /\ call.result.json.items[1].type = LOG_TYPES[Len(LOG_TYPES)]
    /\ call.result.json.items[2].type = LOG_TYPES[1]

(***************************************************************************)
(* Single-item lookups                                                     *)
(***************************************************************************)
LookupTools == {"get_log", "get_asset", "get_plan"}

\* Write tools that probe the asset bundles for an id given without its bundle.
ProbingTools == {"create_log", "update_log", "create_asset", "update_asset"}

\* The family a call looks an id up in, and the sub-types it may try, in order.
LookupFamily ==
    CASE call.tool = "get_log" -> "log" [] call.tool = "get_plan" -> "plan" [] OTHER -> "asset"

CandidateTypes ==
    IF call.tool \in LookupTools /\ call.args.type # NoType THEN <<call.args.type>>
    ELSE CASE call.tool = "get_log" -> LOG_TYPES
           [] call.tool = "get_plan" -> PLAN_TYPES
           [] OTHER -> ASSET_TYPES

\* The lookup requests of the call: GETs of one resource of the family.
Probes(w) ==
    {i \in ApiIdx(w) : w[i].method = "GET" /\ w[i].req.family = LookupFamily /\ w[i].req.id # ""}

\* A lookup request that returned the resource.
Hit(e) == Ok2xx(e) /\ e.data.kind = "item"

TypeIndex(b) == CHOOSE i \in 1..Len(CandidateTypes) : CandidateTypes[i] = b

\* C5: a lookup starts at the first candidate sub-type and moves through the
\* sub-types in their enumeration order; after the request that returned the
\* resource no request for a later sub-type is made for that id: the read tools
\* send nothing more at all, a write tool goes on with its next step (the next
\* id is probed from the first sub-type again).
C5_StopsAtFirstHit ==
    (call.tool \in LookupTools \cup ProbingTools) =>
        LET w == call.wire
            P == Probes(w)
        IN /\ P # {} => TypeIndex(w[Min(P)].req.bundle) = 1
           /\ \A i \in P : \A j \in P :
                 (j > i /\ \A k \in P : ~(i < k /\ k < j)) =>
                    LET ti == TypeIndex(w[i].req.bundle)
                        tj == TypeIndex(w[j].req.bundle)
                    IN IF Hit(w[i]) THEN tj = 1 /\ call.tool \in ProbingTools
                       ELSE \/ w[j].req.id = w[i].req.id /\ tj \in {ti, ti + 1}
                            \/ ti = Len(CandidateTypes) /\ tj = 1 /\ call.tool \in ProbingTools
           /\ call.tool \in LookupTools =>
                 \A i \in P : Hit(w[i]) =>
                    /\ i = Len(w)
                    /\ ~call.result.json.error
                    /\ call.result.json.id = w[i].data.id
                    /\ call.result.json.type = w[i].req.bundle

\* A get_log without a sub-type that missed the first sub-type, found the log in
\* the second and stopped there.
C5_Witness ==
    /\ call.tool = "get_log"
    /\ call.args.type = NoType
    /\ call.wire # <<>>
    /\ Hit(call.wire[Len(call.wire)])
    /\ call.wire[Len(call.wire)].req.bundle = LOG_TYPES[2]
    /\ \E i \in ApiIdx(call.wire) : call.wire[i].req.bundle = LOG_TYPES[1]
    /\ call.result.json.type = LOG_TYPES[2]

\* The failed attempts of the call: refused token exchanges, and requests without
\* a 2xx answer that were not retried with a fresh token.
FailedAttempts(w) ==
    {i \in 1..Len(w) :
        /\ FailedEvent(w[i])
        /\ ~(/\ w[i].kind = "api" /\ w[i].status = 401 /\ i + 2 <= Len(w)
             /\ w[i + 1].kind = "token" /\ w[i + 1].status = 200
             /\ w[i + 2].kind = "api" /\ w[i + 2].req = w[i].req
             /\ ~(i > 2 /\ w[i - 1].kind = "token" /\ w[i - 2].kind = "api"
                  /\ w[i - 2].status = 401 /\ w[i - 2].req = w[i].req))}

NotFound == call.result.kind = "return" /\ call.result.json.error /\ CanCreateClient(environ)
            /\ (call.tool = "get_plan" => call.args.type # NoType)

\* C6: get_asset, get_log and get_plan, when every candidate sub-type is exhausted
\* without a hit, return a not-found error with a `details` list that holds one
\* entry per failed attempt.
C6_NotFoundDetails ==
    (call.tool \in LookupTools /\ NotFound) =>
        /\ "details" \in DOMAIN call.result.json
        /\ Len(call.result.json.details) = Cardinality(FailedAttempts(call.wire))

\* The same for get_asset and get_log only.
C6_DetailsOfAssetAndLog ==
    (call.tool \in {"get_asset", "get_log"} /\ NotFound) =>
        /\ "details" \in DOMAIN call.result.json
        /\ Len(call.result.json.details) = Cardinality(FailedAttempts(call.wire))

\* A get_asset that found nothing and reports the failed attempts.
C6_Witness ==
    /\ call.tool = "get_asset"
    /\ NotFound
    /\ "details" \in DOMAIN call.result.json
    /\ Len(call.result.json.details) >= 2

(***************************************************************************)
(* get_log: include fallback                                               *)
(***************************************************************************)
IncludeLevel(inc) == CHOOSE l \in 1..Len(LogIncludeAttempts) : LogIncludeAttempts[l] = inc

Without(members, x) == SelectSeq(members, LAMBDA y : y # x)

\* C9: the include levels are, in order: the full list, the full list without
\* equipment, that without quantity.units, quantity alone, and no include. For
\* each sub-type get_log starts at the first level, moves to the next level only
\* after a failure and sends nothing more for the sub-type after a success. A
\* returned log carries _include_warnings (one entry per failed attempt of its
\* sub-type) and _include_used (the include of the request that succeeded)
\* exactly when an attempt failed for its sub-type, and neither otherwise.
C9_IncludeFallback ==
    call.tool = "get_log" =>
        LET w == call.wire
            P == ApiIdx(w)
            lvl(i) == IncludeLevel(w[i].req.include)
            json == call.result.json
        IN /\ Len(LogIncludeAttempts) = 5
           /\ "equipment" \in Range(LogIncludeAttempts[1])
           /\ LogIncludeAttempts[2] = Without(LogIncludeAttempts[1], "equipment")
           /\ LogIncludeAttempts[3] = Without(LogIncludeAttempts[2], "quantity.units")
           /\ LogIncludeAttempts[4] = <<"quantity">>
           /\ LogIncludeAttempts[5] = <<>>
           /\ \A i \in P :
                 (\A k \in P : k < i => w[k].req.bundle # w[i].req.bundle) => lvl(i) = 1
           /\ \A i \in P : \A j \in P :
                 (j > i /\ \A k \in P : ~(i < k /\ k < j)) =>
                    IF w[j].req.bundle = w[i].req.bundle
                    THEN /\ ~Ok2xx(w[i])
                         /\ lvl(j) = (IF i \in FailedAttempts(w) THEN lvl(i) + 1 ELSE lvl(i))
                    ELSE (Ok2xx(w[i]) /\ ~Hit(w[i])) \/ (~Ok2xx(w[i]) /\ lvl(i) = 5)
           /\ (~json.error) =>
                 LET fails == {i \in FailedAttempts(w) :
                                  w[i].kind = "api" /\ w[i].req.bundle = json.type}
                 IN /\ "_include_warnings" \in DOMAIN json <=> fails # {}
                    /\ "_include_used" \in DOMAIN json <=> fails # {}
                    /\ Hit(w[Len(w)]) /\ w[Len(w)].req.bundle = json.type
                    /\ fails # {} =>
                          /\ json._include_used = w[Len(w)].req.include
                          /\ Len(json._include_warnings) = Cardinality(fails)
                          /\ \A k \in 1..Len(json._include_warnings) :
                                /\ json._include_warnings[k].type = json.type
                                /\ IncludeLevel(json._include_warnings[k].include) = k
                    /\ lvl(Len(w)) = 1 => fails = {}

\* A get_log whose two richest include levels were rejected and that returned
\* the log fetched with the third, annotated with two warnings.
C9_Witness ==
    /\ call.tool = "get_log"
    /\ ~call.result.json.error
    /\ "_include_used" \in DOMAIN call.result.json
    /\ call.result.json._include_used = LogIncludeAttempts[3]
    /\ Len(call.result.json._include_warnings) = 2

(***************************************************************************)
(* create_log: quantities                                                  *)
(***************************************************************************)
\* The k-th element of a set of indices, in increasing order
Nth(S, k) == CHOOSE x \in S : Cardinality({y \in S : y < x}) = k - 1

QuantityPosts(w) ==
    {i \in ApiIdx(w) : w[i].method = "POST" /\ w[i].req.family = "quantity"}

QuantityCreated(w) == {i \in QuantityPosts(w) : Ok2xx(w[i])}

LogPosts(w) == {i \in ApiIdx(w) : w[i].method = "POST" /\ w[i].req.family = "log"}

\* The reads of the quantity created by the POST at index i
QuantityReads(w, i) ==
    {j \in ApiIdx(w) : /\ j > i
                       /\ w[j].method = "GET"
                       /\ w[j].req.family = "quantity"
                       /\ w[j].req.id = DataId(w[i].data)}

\* The revision id the backend supplied for the quantity created at index i: in
\* the creation response, or else in the answer to the read that followed.
SuppliedRev(w, i) ==
    IF DataRev(w[i].data) # NoRev THEN DataRev(w[i].data)
    ELSE IF QuantityReads(w, i) # {} /\ Ok2xx(w[Max(QuantityReads(w, i))])
    THEN DataRev(w[Max(QuantityReads(w, i))].data)
    ELSE NoRev

IsCreateLogWithQuantities ==
    /\ call.tool = "create_log"
    /\ call.args.quantities # None
    /\ The(call.args.quantities) # <<>>

\* What C7 says of the requests, whatever the entries carry: every quantity POST
\* precedes the log POST; a log POST is sent only after one quantity per element
\* was created, in the order of the list, each by a POST quantity/<type> whose
\* attributes.value is {"decimal": str(float(value))} when a value is given and
\* absent otherwise; the log's quantity relationship has one entry per element
\* with the type and the id of the creation response.
QuantitiesFirst(w, qs) ==
    /\ \A i \in QuantityPosts(w) : \A j \in LogPosts(w) : i < j
    /\ Cardinality(QuantityCreated(w)) <= Len(qs)
    /\ \A k \in 1..Cardinality(QuantityCreated(w)) :
          LET e == w[Nth(QuantityCreated(w), k)]
              at == e.req.payload.attributes
          IN /\ e.req.bundle = QtyType(qs[k])
             /\ e.req.payload.type = <<"quantity", QtyType(qs[k])>>
             /\ "value" \in DOMAIN at <=> qs[k].value # None
             /\ qs[k].value # None =>
                   at.value = [decimal |-> FloatRepr(ToFloat(The(qs[k].value)).tenths)]
    /\ \A j \in LogPosts(w) :
          /\ Cardinality(QuantityCreated(w)) = Len(qs)
          /\ "relationships" \in DOMAIN w[j].req.payload
          /\ "quantity" \in DOMAIN w[j].req.payload.relationships
          /\ LET rel == w[j].req.payload.relationships.quantity
             IN /\ Len(rel) = Len(qs)
                /\ \A k \in 1..Len(qs) :
                      /\ rel[k].type = <<"quantity", QtyType(qs[k])>>
                      /\ rel[k].id = DataId(w[Nth(QuantityCreated(w), k)].data)

FalseLike(v) ==
    /\ v # Unset
    /\ \E i \in 1..Len(v) :
          /\ i + 4 <= Len(v)
          /\ \A k \in 1..Len(v) : (k < i \/ k > i + 4) => v[k] \in Whitespace
          /\ v[i] \in {"f", "F"}
          /\ v[i + 1] \in {"a", "A"}
          /\ v[i + 2] \in {"l", "L"}
          /\ v[i + 3] \in {"s", "S"}
          /\ v[i + 4] \in {"e", "E"}

\* C8: the read tools are always registered and the write tools exactly when
\* FARMOS_READ_ONLY, trimmed and lower-cased, is "false"; with any other value,
\* or with the variable unset, every call is a call of a read tool and every
\* request it sends to the API is a GET (the token requests aside).
C8_ReadOnlyGate ==
    /\ registered = ReadTools \cup (IF FalseLike(environ.FARMOS_READ_ONLY) THEN WriteTools ELSE {})
    /\ ~FalseLike(environ.FARMOS_READ_ONLY) =>
          (~Idle =>
              /\ call.tool \in ReadTools
              /\ \A i \in 1..Len(call.wire) :
                    \/ call.wire[i].kind = "api" /\ call.wire[i].method = "GET"
                    \/ /\ call.wire[i].kind = "token"
                       /\ call.wire[i].req.family = "oauth"
                       /\ call.wire[i].req.bundle = "token")

\* A read-only server (the variable holds a value other than "false") that
\* served a list call with requests to the API after an earlier call.
C8_Witness ==
    /\ environ.FARMOS_READ_ONLY \notin {Unset, <<"f","a","l","s","e">>}
    /\ ~FalseLike(environ.FARMOS_READ_ONLY)
    /\ registered \cap WriteTools = {}
    /\ ~Idle
    /\ call.tool = "get_logs"
    /\ Cardinality(ApiIdx(call.wire)) >= 2
    /\ access_token # NoToken
    /\ call.tok0 # NoToken

\* A server whose variable is " FalsE" with a line end serves a write tool.
C8_WitnessWrite ==
    /\ environ.FARMOS_READ_ONLY = <<" ","F","a","l","s","E","\n">>
    /\ ~Idle
    /\ call.tool \in WriteTools
    /\ \E i \in ApiIdx(call.wire) : call.wire[i].method \in {"POST", "PATCH"}

(***************************************************************************)
(* Quantity value normalisation                                            *)
(***************************************************************************)
\* v is a number, or a text that reads as one
ReadsAsNumber(v) ==
    \/ v.kind \in {"int", "float"}
    \/ v.kind = "str" /\ ParseFloat(StrStrip(v.text)).ok

\* v is a whole number, or a text that reads as one
ReadsAsWhole(v) ==
    \/ v.kind = "int"
    \/ v.kind = "str" /\ IsDigits(StrStrip(v.text))

NumberOf(v) == IF v.kind = "str" THEN ParseFloat(StrStrip(v.text)).tenths ELSE v.tenths

Normalised == qcase.fn \in {"logs", "quantities"}

\* The results C10 names, for a call that returned: a decimal that reads as a
\* number yields that number; without a decimal, a whole numerator and a whole
\* non-zero denominator yield their quotient; a missing value, and a value
\* without a decimal and without a numerator or a denominator, yield null.
C10_ValuesWhenReturned ==
    (Normalised /\ qcase.result.out = "ok") =>
        LET v == qcase.value
            r == qcase.result
        IN /\ v.kind = "dict" =>
                 LET d == DictGet(v, "decimal")
                     n == DictGet(v, "numerator")
                     m == DictGet(v, "denominator")
                 IN /\ ReadsAsNumber(d) => r.den # 0 /\ r.num * 10 = NumberOf(d) * r.den
                    /\ (d.kind = "null" /\ ReadsAsWhole(n) /\ ReadsAsWhole(m) /\ NumberOf(m) # 0) =>
                          r.den # 0 /\ r.num * NumberOf(m) = NumberOf(n) * r.den
                    /\ (d.kind = "null" /\ (n.kind = "null" \/ m.kind = "null")) => r = NoneResult
           /\ v.kind = "null" => r = NoneResult

\* C10: _parse_qty_value never raises, whatever the value is, and yields the
\* decimal, the quotient of numerator and denominator, or null.
C10_NeverRaises ==
    /\ Normalised => qcase.result.out = "ok"
    /\ C10_ValuesWhenReturned

\* What holds of the function as written: it returns for a falsy value and for
\* every object whose numerator and denominator int() accepts or rejects with a
\* ValueError, and it raises for any other value.
C10_RaisesOnlyOutside ==
    Normalised =>
        LET v == qcase.value
            r == qcase.result
        IN r.out # "ok" <=>
              /\ PyTruthy(v)
              /\ \/ v.kind # "dict"
                 \/ /\ ~ReadsAsNumber(DictGet(v, "decimal"))
                    /\ DictGet(v, "decimal").kind # "bool"
                    /\ DictGet(v, "numerator").kind # "null"
                    /\ PyTruthy(DictGet(v, "denominator"))
                    /\ \/ DictGet(v, "numerator").kind \in {"list", "dict"}
                       \/ /\ DictGet(v, "denominator").kind \in {"list", "dict"}
                          /\ ~(DictGet(v, "numerator").kind = "str"
                               /\ ~IsDigits(StrStrip(DictGet(v, "numerator").text)))

\* The normalisation of {"numerator": [1], "denominator": 3} left the function
\* with a TypeError.
C10_Raised ==
    /\ Normalised
    /\ qcase.value = DictValue(("numerator" :> ListValue(<<IntValue(1)>>)) @@ ("denominator" :> IntValue(3)))
    /\ qcase.result.out = "TypeError"

(***************************************************************************)
(* Dates of the write tools                                                *)
(***************************************************************************)
\* The date arguments of each write tool
DateArgs ==
    [create_log |-> {"timestamp", "purchase_date"}, update_log |-> {"timestamp", "purchase_date"},
     create_asset |-> {"birthdate"}, update_asset |-> {"birthdate"}]

\* The POST or PATCH requests of the call that write a log or an asset
EntityWrites(w) ==
    {i \in ApiIdx(w) : w[i].method \in {"POST", "PATCH"} /\ w[i].req.family \in {"log", "asset"}}

\* The date arguments whose calendar date in UTC is written in the argument: a
\* date alone, or a datetime in UTC
DatesGiven(tool, a, forms) ==
    {n \in DateArgs[tool] : a[n] # None /\ The(a[n]).form \in forms}

\* The epoch seconds sent for the date iso read back as the date iso names; a date
\* alone is sent as midnight UTC of that date
RoundTrips(iso, ts) ==
    /\ SubSeq(_ts_to_iso(ts), 1, 3) = <<iso.y, iso.m, iso.d>>
    /\ iso.form = "date" => _ts_to_iso(ts) = <<iso.y, iso.m, iso.d, 0, 0, 0>>

\* C11: every date or datetime supplied to a write tool (create_log timestamp,
\* update_log timestamp, purchase_date, birthdate) is sent as epoch seconds that
\* normalise back to the original calendar date in UTC, whatever the local time
\* zone of the process; a date without a time is sent as midnight UTC of that date.
C11_RoundTrip ==
    call.tool \in DOMAIN DateArgs =>
        \A i \in EntityWrites(call.wire) :
            \A n \in DatesGiven(call.tool, call.args, {"date", "utc"}) :
                /\ n \in DOMAIN call.wire[i].req.payload.attributes
                /\ RoundTrips(The(call.args[n]), call.wire[i].req.payload.attributes[n])

\* The same for every date argument but the timestamp of create_log.
C11_RoundTripThroughIsoToTs ==
    call.tool \in DOMAIN DateArgs =>
        \A i \in EntityWrites(call.wire) :
            \A n \in DatesGiven(call.tool, call.args, {"date", "utc"}) :
                (call.tool = "create_log" /\ n = "timestamp") \/
                    /\ n \in DOMAIN call.wire[i].req.payload.attributes
                    /\ RoundTrips(The(call.args[n]), call.wire[i].req.payload.attributes[n])

\* The timestamp of create_log given as a datetime in UTC round-trips as well.
C11_CreateLogUtcTimestamp ==
    call.tool = "create_log" =>
        \A i \in EntityWrites(call.wire) :
            \A n \in DatesGiven(call.tool, call.args, {"utc"}) :
                RoundTrips(The(call.args[n]), call.wire[i].req.payload.attributes[n])

\* An update_log sent with a timestamp given as a date alone: midnight UTC.
C11_Witness ==
    /\ call.tool = "update_log"
    /\ EntityWrites(call.wire) # {}
    /\ "timestamp" \in DatesGiven(call.tool, call.args, {"date"})
    /\ _ts_to_iso(call.wire[Max(EntityWrites(call.wire))].req.payload.attributes.timestamp)
           = <<2024, 3, 1, 0, 0, 0>>

\* A create_log sent with a timestamp given as a date alone.
C11_CreateLogDateOnly ==
    /\ call.tool = "create_log"
    /\ EntityWrites(call.wire) # {}
    /\ "timestamp" \in DatesGiven(call.tool, call.args, {"date"})

(***************************************************************************)
(* Lists: limit and offset                                                 *)
(***************************************************************************)
\* A list call that returned its list
Listed == call.tool \in MergedTools /\ call.result.kind = "return" /\ ~call.result.json.error

\* C12: get_logs, get_assets, get_plans and get_quantities return at most
\* min(limit, 100) items, with a sub-type given and in merged mode, against a
\* backend that honours page[limit].
C12_AtMostMinLimitCap ==
    Listed =>
        /\ Len(call.result.json.items) <= call.args.limit
        /\ Len(call.result.json.items) <= PageLimitCap

\* What holds: at most limit items in either mode, and at most 100 with a
\* sub-type given.
C12_AtMostLimit ==
    Listed =>
        /\ Len(call.result.json.items) <= call.args.limit
        /\ call.args.type # NoType => Len(call.result.json.items) <= PageLimitCap

\* A list with a sub-type given and a limit above 100 that returned 100 items of
\* the 101 the sub-type holds.
C12_CappedWithSubType ==
    /\ Listed
    /\ call.args.type # NoType
    /\ call.args.limit > PageLimitCap
    /\ Len(call.result.json.items) = PageLimitCap

ListFamily ==
    [get_logs |-> "log", get_assets |-> "asset", get_plans |-> "plan",
     get_quantities |-> "quantity"]

\* The merged list as the responses of the call and the limit determine it
MergedOf(tool, w, limit) ==
    LET all == NormItems(ListFamily[tool], ListedInOrder(w))
    IN Truncate(CASE tool = "get_logs" -> SortLogs(all)
                  [] tool \in {"get_assets", "get_plans"} -> SortAssets(all)
                  [] OTHER -> all,
                limit)

\* The requests of the call, a request repeated after a 401 counted once
Requested(w) == {w[i].req : i \in ApiIdx(w)}

\* C13: with a sub-type given the single list request carries page[offset] =
\* offset; in merged mode no per-type request carries page[offset], and the
\* result is what the responses and the limit determine, whatever the offset.
C13_OffsetOnlyWithSubType ==
    (call.tool \in MergedTools /\ CanCreateClient(environ)) =>
        LET w == call.wire
        IN IF call.args.type # NoType
           THEN /\ Cardinality(Requested(w)) <= 1
                /\ \A r \in Requested(w) :
                      r.bundle = call.args.type /\ r.offset = call.args.offset
           ELSE /\ \A r \in Requested(w) : r.offset = NoOffset
                /\ ~call.result.json.error
                /\ call.result.json.items = MergedOf(call.tool, w, call.args.limit)

\* A merged get_logs called with offset 1 whose first sub-type answered with two
\* logs: both are returned.
C13_Witness ==
    /\ call.tool = "get_logs"
    /\ IsMerged
    /\ call.args.offset = 1
    /\ call.args.limit = 2
    /\ Ok2xx(call.wire[Min(ApiIdx(call.wire))])
    /\ Len(call.wire[Min(ApiIdx(call.wire))].data.items) = 2
    /\ Len(call.result.json.items) = 2
    /\ \A k \in 1..2 : call.result.json.items[k].type = LOG_TYPES[1]

\* A get_assets with a sub-type and offset 1: the request carries page[offset] = 1.
C13_WitnessSubType ==
    /\ call.tool = "get_assets"
    /\ call.args.type # NoType
    /\ call.args.offset = 1
    /\ \E r \in Requested(call.wire) : r.offset = 1
    /\ ~call.result.json.error

(***************************************************************************)
(* Plans: no configured sub-types                                          *)
(***************************************************************************)
PlanTools == {"get_plans", "get_plan"}

\* C14: with the client configured, get_plans without plan_type returns an empty
\* plan list with a note and sends no request; get_plan without plan_type returns
\* an error and sends no request; with a plan_type given only plan/<plan_type>
\* is requested.
C14_PlanTypeMustBeGiven ==
    (call.tool \in PlanTools /\ CanCreateClient(environ)) =>
        LET w == call.wire
            json == call.result.json
        IN /\ call.result.kind = "return"
           /\ (call.tool = "get_plans" /\ call.args.type = NoType) =>
                 /\ w = <<>>
                 /\ ~json.error
                 /\ json.items = <<>>
                 /\ json.returned = 0
                 /\ "note" \in DOMAIN json
           /\ (call.tool = "get_plan" /\ call.args.type = NoType) =>
                 /\ w = <<>>
                 /\ json.error
           /\ call.args.type # NoType =>
                 /\ Cardinality(Requested(w)) <= 1
                 /\ \A r \in Requested(w) : r.family = "plan" /\ r.bundle = call.args.type
                 /\ Requested(w) = {} => \E i \in TokIdx(w) : w[i].status # 200

\* A get_plans without plan_type, answered with the note and no request sent.
C14_Witness ==
    /\ call.tool = "get_plans"
    /\ call.args.type = NoType
    /\ CanCreateClient(environ)
    /\ call.wire = <<>>
    /\ "note" \in DOMAIN call.result.json

\* A get_plan with plan_type given that found the plan in that sub-type.
C14_WitnessGiven ==
    /\ call.tool = "get_plan"
    /\ call.args.type = "rotational_grazing"
    /\ ~call.result.json.error
    /\ Requested(call.wire) # {}

(***************************************************************************)
(* Update tools: partial patch                                             *)
(***************************************************************************)
\* The arguments of each update tool that become attributes, under their own name
PatchAttrs ==
    [update_log |-> {"name", "status", "notes", "timestamp", "flags", "is_movement",
                     "is_group_assignment", "data", "lot_number", "purchase_date", "source",
                     "method"},
     update_asset |-> {"name", "status", "notes", "sex", "birthdate", "is_sterile",
                       "manufacturer", "model", "serial_number", "land_type", "structure_type"},
     update_plan |-> {"name", "status", "notes", "flags"},
     update_term |-> {"name", "description"}]

\* The arguments of each update tool that become relationships: <<argument, key>>
PatchListRels ==
    [update_log |-> {<<"asset_ids", "asset">>, <<"location_ids", "location">>,
                     <<"equipment_ids", "equipment">>, <<"owner_ids", "owner">>,
                     <<"category_ids", "category">>, <<"quantities", "quantity">>},
     update_asset |-> {<<"parent_ids", "parent">>, <<"plant_type_ids", "plant_type">>,
                       <<"season_ids", "season">>, <<"material_type_ids", "material_type">>},
     update_plan |-> {<<"owner_ids", "owner">>},
     update_term |-> {}]

PatchOneRels ==
    [update_log |-> {}, update_plan |-> {}, update_term |-> {},
     update_asset |-> {<<"animal_type_id", "animal_type">>,
                       <<"equipment_type_id", "equipment_type">>}]

\* The PATCH requests of the call
Patches(w) == {i \in ApiIdx(w) : w[i].method = "PATCH"}

RelKeys(payload) ==
    IF "relationships" \in DOMAIN payload THEN DOMAIN payload.relationships ELSE {}

ProbedArgs ==
    [create_log |-> {<<"asset_ids", "asset">>, <<"location_ids", "location">>},
     update_log |-> {<<"asset_ids", "asset">>, <<"location_ids", "location">>},
     create_asset |-> {<<"parent_ids", "parent">>},
     update_asset |-> {<<"parent_ids", "parent">>}]

\* The probes of id x that returned the asset
HitsOf(w, x) == {j \in Probes(w) : w[j].req.id = x /\ Hit(w[j])}

\* The first sub-type whose lookup returned x (NoType: none did)
HitType(w, x) == IF HitsOf(w, x) = {} THEN NoType ELSE w[Min(HitsOf(w, x))].req.bundle

\* Before request i, x was probed through the sub-types in ASSET_TYPES order up
\* to the first one that returned it
ProbedInOrder(w, x, i) ==
    /\ HitsOf(w, x) # {}
    /\ Min(HitsOf(w, x)) < i
    /\ \A t \in 1..Len(ASSET_TYPES) :
          ASSET_TYPES[t] = HitType(w, x) =>
             \A u \in 1..(t - 1) :
                \E j \in Probes(w) : /\ j < Min(HitsOf(w, x))
                                     /\ w[j].req.id = x
                                     /\ w[j].req.bundle = ASSET_TYPES[u]
                                     /\ ~Hit(w[j])

\* The entries of relationship key in the payload (none when the key is absent)
RelEntries(payload, key) ==
    IF key \in RelKeys(payload) THEN payload.relationships[key] ELSE <<>>

Resolved(w, ids) ==
    LET found == SelectSeq(ids, LAMBDA x : HitType(w, x) # NoType)
    IN [k \in 1..Len(found) |-> [type |-> <<"asset", HitType(w, found[k])>>, id |-> found[k]]]

\* C16: every asset, location or parent id supplied to a write tool is probed
\* through the asset sub-types in ASSET_TYPES order before the write is sent and
\* is attached as asset--<t>, t the first sub-type whose lookup returned it.
C16_EveryIdAttached ==
    call.tool \in ProbingTools =>
        \A i \in EntityWrites(call.wire) : \A p \in ProbedArgs[call.tool] :
            call.args[p[1]] # None =>
                LET ids == The(call.args[p[1]])
                    rel == RelEntries(call.wire[i].req.payload, p[2])
                IN /\ Len(rel) = Len(ids)
                   /\ \A k \in 1..Len(ids) :
                         /\ ProbedInOrder(call.wire, ids[k], i)
                         /\ rel[k] = [type |-> <<"asset", HitType(call.wire, ids[k])>>,
                                      id |-> ids[k]]

\* What holds: the ids some sub-type returned are attached, in order, as
\* asset--<t> of the first such sub-type, each probed in order before the write;
\* a log write is sent only when every id was resolved.
C16_ResolvedIdsAttached ==
    call.tool \in ProbingTools =>
        \A i \in EntityWrites(call.wire) : \A p \in ProbedArgs[call.tool] :
            call.args[p[1]] # None =>
                LET ids == The(call.args[p[1]])
                    rel == RelEntries(call.wire[i].req.payload, p[2])
                IN /\ rel = Resolved(call.wire, ids)
                   /\ \A k \in 1..Len(ids) :
                         HitType(call.wire, ids[k]) # NoType =>
                            ProbedInOrder(call.wire, ids[k], i)
                   /\ call.tool \in {"create_log", "update_log"} => Len(rel) = Len(ids)

\* A create_log sent with two assets found in different sub-types.
C16_ResolvedTwo ==
    /\ call.tool = "create_log"
    /\ EntityWrites(call.wire) # {}
    /\ call.args.asset_ids = Some(<<"A1", "A2">>)
    /\ HitType(call.wire, "A1") = ASSET_TYPES[2]
    /\ HitType(call.wire, "A2") = ASSET_TYPES[1]
    /\ RelEntries(call.wire[Max(EntityWrites(call.wire))].req.payload, "asset")
           = <<[type |-> <<"asset", ASSET_TYPES[2]>>, id |-> "A1"],
               [type |-> <<"asset", ASSET_TYPES[1]>>, id |-> "A2"]>>

\* An update_asset whose parent no sub-type returned: the PATCH is sent with an
\* empty parent list.
C16_ParentDropped ==
    /\ call.tool = "update_asset"
    /\ call.args.parent_ids = Some(<<"A1">>)
    /\ HitType(call.wire, "A1") = NoType
    /\ Patches(call.wire) # {}
    /\ call.wire[Max(Patches(call.wire))].req.payload.relationships.parent = <<>>
    /\ ~call.result.json.error

(***************************************************************************)
(* Write tools: the returned representation                                *)
(***************************************************************************)
\* The POST or PATCH requests of the entity the tool writes
MainWrites(w) ==
    {i \in ApiIdx(w) : w[i].method \in {"POST", "PATCH"} /\ w[i].req.family # "quantity"}

\* A write tool call that returned no error
WriteSucceeded ==
    call.tool \in WriteTools /\ call.result.kind = "return" /\ ~call.result.json.error

\* The normalised form of response data, per tool
NormalizedOf(tool, data) ==
    CASE tool \in {"create_log", "update_log"} -> NormalizedLog(data)
      [] tool \in {"create_asset", "update_asset"} -> NormalizedAsset(data)
      [] tool \in {"create_plan", "update_plan"} -> NormalizedPlan(data)
      [] OTHER -> NormalizedTerm(data)

\* The call ended with a GET of log/<type>/<id> that followed the write at i, and
\* returned the normalised data of that response
ReFetched(w, i, id) ==
    /\ Len(w) > i
    /\ LET e == w[Len(w)]
       IN /\ e.kind = "api" /\ e.method = "GET" /\ Ok2xx(e)
          /\ e.req.family = "log" /\ e.req.bundle = call.args.log_type /\ e.req.id = id
          /\ call.result.json = NormalizedLog(e.data)

\* The call ended with the write at i and returned the normalised data of its response
ReturnedInline(w, i) == i = Len(w) /\ call.result.json = NormalizedOf(call.tool, w[i].data)

C17_WitnessInline ==
    /\ call.tool = "create_asset"
    /\ WriteSucceeded
    /\ call.result.json.id = NewAssetId
    /\ call.wire[Len(call.wire)].method = "POST"

(***************************************************************************)
(* Quantity creation: the fallback read                                    *)
(***************************************************************************)
\* The requests answered 401 that were sent again with a fresh token
Resent(w) == {j \in ApiIdx(w) : ~Ok2xx(w[j]) /\ j \notin FailedAttempts(w)}

RefsNormalised == qcase.fn \in {"log", "asset"}

\* The relationship a list of the flat record is built from
RelOfList ==
    [k \in {"assets", "locations", "equipment", "owners", "categories", "parents",
            "animal_type", "plant_type", "season", "equipment_type", "material_type"} |->
        CASE k = "assets" -> "asset"
          [] k = "locations" -> "location"
          [] k = "owners" -> "owner"
          [] k = "categories" -> "category"
          [] k = "parents" -> "parent"
          [] OTHER -> k]

\* The targets a relationship points at: the objects of its data that carry an id
TargetsOf(resource, rel) ==
    LET d == RelData(resource.rels, rel)
        items == IF d.kind = "list" THEN d.items ELSE IF d.kind = "dict" THEN <<d>> ELSE <<>>
        HasId(r) == r.kind = "dict" /\ "id" \in DOMAIN r.members
                    /\ r.members["id"].kind = "str" /\ r.members["id"].text # <<>>
    IN SelectSeq(items, HasId)

\* t is what follows the first "--" of tag (the whole tag when it has no "--")
AfterFirstSep(tag, t) ==
    \/ /\ \A i \in 1..(Len(tag) - 1) : ~(tag[i] = "-" /\ tag[i + 1] = "-")
       /\ t = tag
    \/ \E i \in 1..(Len(tag) - 1) :
        /\ tag[i] = "-" /\ tag[i + 1] = "-"
        /\ \A j \in 1..(i - 1) : ~(tag[j] = "-" /\ tag[j + 1] = "-")
        /\ Len(t) = Len(tag) - (i + 1)
        /\ \A n \in 1..Len(t) : t[n] = tag[i + 1 + n]

\* The resources of the included list that carry the id, in the order of the list
SideLoaded(included, id) == SelectSeq(included, LAMBDA r : r.id = id)

\* ref is the reference to target that the side-loaded resources call for
ReferenceTo(ref, target, included) ==
    LET id == target.members["id"].text
        loaded == SideLoaded(included, id)
    IN /\ ref["id"] = id
       /\ AfterFirstSep(target.members["type"].text, ref["type"])
       /\ IF loaded # <<>>
          THEN /\ DOMAIN ref = {"id", "type", "name"}
               /\ LET inc == loaded[Len(loaded)]
                  IN ref["name"] = IF "name" \in DOMAIN inc.attributes
                                   THEN inc.attributes["name"] ELSE NullValue
          ELSE DOMAIN ref = {"id", "type"}

\* C19: in a normalised asset or log every reference list holds, in order, one
\* reference per target of its relationship; the reference carries a name exactly
\* when the target's id is among the side-loaded resources, and the name is then
\* the target's name attribute; otherwise it is exactly {id, type}; its type is
\* the part of the target's type tag after the first "--".
C19_ReferenceNames ==
    RefsNormalised =>
        \A k \in DOMAIN qcase.result.refs :
            LET refs == qcase.result.refs[k]
                targets == TargetsOf(qcase.resource, RelOfList[k])
            IN /\ Len(refs) = Len(targets)
               /\ \A i \in 1..Len(refs) : ReferenceTo(refs[i], targets[i], qcase.included)

\* A log whose assets list holds a named and an unnamed reference
C19_Witness ==
    /\ qcase.fn = "log"
    /\ qcase.included = <<Inc(IdX, NameA)>>
    /\ qcase.result.refs["assets"] =
         <<("id" :> IdX) @@ ("type" :> <<"b">> \o TypeSep \o <<"c">>) @@ ("name" :> StrValue(<<"A">>)),
           ("id" :> IdY) @@ ("type" :> <<"u", "s", "e", "r">>)>>

\* An animal asset whose animal_type reference is side-loaded without a name attribute
C19_WitnessAsset ==
    /\ qcase.fn = "asset"
    /\ qcase.result.type = AnimalChars
    /\ qcase.included = <<Inc(IdY, EmptyMap)>>
    /\ "animal_type" \in DOMAIN qcase.result.refs
    /\ qcase.result.refs["animal_type"] =
         <<("id" :> IdY) @@ ("type" :> <<"u", "s", "e", "r">>) @@ ("name" :> NullValue)>>

(***************************************************************************)
(* C20: token exchanges                                                    *)
(***************************************************************************)
\* No token is cached when event i of the call's wire log is sent: the call began
\* without one and nothing was sent before, or the event before is a request
\* answered 401 (the token was discarded) or a token exchange that failed.
NoTokenCachedAt(i) ==
    IF i = 1 THEN call.tok0 = NoToken
    ELSE \/ call.wire[i - 1].kind = "api" /\ call.wire[i - 1].status = 401
         \/ call.wire[i - 1].kind = "token" /\ call.wire[i - 1].status # 200

\* C20: a token exchange is made only when no bearer token is cached (on the first
\* request, and after a 401 has discarded the token); as long as no request was
\* answered 401 and the first exchange succeeded, exactly one token exchange has
\* been made over all the calls so far and every request carried its token.
C20_OneExchange ==
    /\ ~Idle => \A i \in TokIdx(call.wire) : NoTokenCachedAt(i)
    /\ (hist.clean /\ (hist.exchanges > 0 \/ hist.bearers # {})) =>
           /\ hist.exchanges = 1
           /\ hist.token # NoToken
           /\ hist.bearers \subseteq {hist.token}
           /\ access_token = hist.token

\* A later tool call sends several requests, all with the token of the one exchange
C20_Witness ==
    /\ ~Idle /\ ~IsTransportCall
    /\ call.tok0 # NoToken
    /\ Cardinality(ApiIdx(call.wire)) > 1
    /\ TokIdx(call.wire) = {}
    /\ hist.clean /\ hist.exchanges = 1 /\ hist.bearers = {hist.token}

\* A call re-exchanges after a 401 discarded the cached token
C20_WitnessAfter401 ==
    /\ ~Idle
    /\ call.tok0 # NoToken
    /\ \E i \in TokIdx(call.wire) : i > 1 /\ call.wire[i - 1].kind = "api"

(***************************************************************************)
(* C21: failed responses of the transport                                  *)
(***************************************************************************)
\* Wire event j is a response of the API that is not 2xx
ErrorResponse(w, j) == w[j].kind = "api" /\ w[j].status # NetErr /\ w[j].status \notin 200..299

\* C21: one get/post/patch sends at most two requests to the API, the second only
\* after a 401 on the first; any non-2xx response other than a 401 on the first
\* attempt is the last thing on the wire (it is never retried) and fails the call
\* with an error that carries that response: its status code and its body.
C21_FailsWithoutRetry ==
    IsTransportCall =>
        LET w == call.wire
            apis == ApiIdx(w)
        IN /\ Cardinality(apis) <= 2
           /\ Cardinality(apis) = 2 => w[Min(apis)].status = 401
           /\ \A j \in apis :
                 (ErrorResponse(w, j) /\ ~(j = Min(apis) /\ w[j].status = 401)) =>
                     /\ j = Len(w)
                     /\ call.result.kind = "http"
                     /\ call.result.status = w[j].status
                     /\ call.result.resp = j

\* A patch answered 500 on its only attempt
C21_Witness ==
    /\ call.tool = "client.patch"
    /\ Cardinality(ApiIdx(call.wire)) = 1
    /\ call.wire[Len(call.wire)].status = 500
    /\ call.result = [kind |-> "http", status |-> 500, resp |-> Len(call.wire)]

\* A get retried after a 401 and answered 404 on the retry
C21_WitnessRetry ==
    /\ call.tool = "client.get"
    /\ Cardinality(ApiIdx(call.wire)) = 2
    /\ call.wire[Len(call.wire)].status = 404
    /\ call.result.kind = "http" /\ call.result.status = 404

(***************************************************************************)
(* C22: the range filter of get_logs                                       *)
(***************************************************************************)
FiltersBuilt == qcase.fn = "params"

\* The text is a calendar date without a time component: YYYY-MM-DD
IsDateOnly(s) ==
    /\ Len(s) = 10
    /\ s[5] = "-" /\ s[8] = "-"
    /\ IsDigits(SubSeq(s, 1, 4)) /\ IsDigits(SubSeq(s, 6, 7)) /\ IsDigits(SubSeq(s, 9, 10))

\* The text v is the date d at the given second of the day in UTC: dThh:mm:ssZ
IsUtcInstant(v, d, second) ==
    /\ Len(v) = 20
    /\ SubSeq(v, 1, 10) = d
    /\ v[11] = "T" /\ v[14] = ":" /\ v[17] = ":" /\ v[20] = "Z"
    /\ IsDigits(SubSeq(v, 12, 13)) /\ IsDigits(SubSeq(v, 15, 16)) /\ IsDigits(SubSeq(v, 18, 19))
    /\ 3600 * NatOf(SubSeq(v, 12, 13)) + 60 * NatOf(SubSeq(v, 15, 16)) + NatOf(SubSeq(v, 18, 19))
         = second

FilterKeys(name) ==
    {"filter[" \o name \o "][condition][path]", "filter[" \o name \o "][condition][value]",
     "filter[" \o name \o "][condition][operator]"}

\* The filter the bound `name` given as arg calls for: none when the bound is left
\* out; otherwise a condition on the timestamp with the operator, whose value is
\* the bound itself when it has a time component and the date at `second` UTC
\* when it is a date only.
BoundSent(params, name, arg, operator, second) ==
    IF arg = None
    THEN FilterKeys(name) \cap DOMAIN params = {}
    ELSE IF The(arg) = <<>> THEN FilterKeys(name) \cap DOMAIN params = {}
    ELSE /\ FilterKeys(name) \subseteq DOMAIN params
         /\ params["filter[" \o name \o "][condition][path]"]
              = <<"t", "i", "m", "e", "s", "t", "a", "m", "p">>
         /\ params["filter[" \o name \o "][condition][operator]"] = operator
         /\ LET v == params["filter[" \o name \o "][condition][value]"]
            IN IF IsDateOnly(The(arg)) THEN IsUtcInstant(v, The(arg), second)
               ELSE v = The(arg)

\* C22: a date_from without a time component is sent as that date at 00:00:00 UTC
\* with operator >=, a date_to without a time component as that date at 23:59:59
\* UTC with operator <=, a bound that has a time component is sent unchanged, and
\* a bound left out adds no filter.
C22_RangeFilter ==
    FiltersBuilt =>
        /\ BoundSent(qcase.params, "date_from", qcase.date_from, <<">", "=">>, 0)
        /\ BoundSent(qcase.params, "date_to", qcase.date_to, <<"<", "=">>, SecondsPerDay - 1)

\* A range from a date to a date: midnight of the first, end of day of the last
C22_Witness ==
    /\ FiltersBuilt
    /\ qcase.date_from = Some(June1) /\ qcase.date_to = Some(June30)
    /\ qcase.params["filter[date_from][condition][value]"] = June1 \o MidnightSuffix
    /\ qcase.params["filter[date_to][condition][value]"] = June30 \o EndOfDaySuffix

\* An upper bound with a time component and no lower bound
C22_WitnessUnchanged ==
    /\ FiltersBuilt
    /\ qcase.date_from = None /\ qcase.date_to = Some(June30 \o TenOClock)
    /\ "filter[date_from][condition][value]" \notin DOMAIN qcase.params
    /\ qcase.params["filter[date_to][condition][value]"] = June30 \o TenOClock

(***************************************************************************)
(* C23: the order of the steps of create_log and update_log                *)
(***************************************************************************)
LogWriteTools == {"create_log", "update_log"}

\* The requests that create a quantity or read one back
QuantityRequests(w) == {i \in ApiIdx(w) : w[i].req.family = "quantity"}

\* The POST or PATCH of the log
LogWrites(w) ==
    {i \in ApiIdx(w) : w[i].method \in {"POST", "PATCH"} /\ w[i].req.family = "log"}

\* The asset and location ids the call supplies
SuppliedIds(a) ==
    (IF a.asset_ids = None THEN {} ELSE Range(The(a.asset_ids)))
    \cup (IF a.location_ids = None THEN {} ELSE Range(The(a.location_ids)))

\* The quantities the call supplies
SuppliedQuantities(a) == IF a.quantities = None THEN <<>> ELSE The(a.quantities)

ReturnedError == call.result.kind = "return" /\ call.result.json.error

C23_WitnessNoRollback ==
    /\ call.tool = "update_log"
    /\ ReturnedError
    /\ Cardinality(QuantityPosts(call.wire)) = 2
    /\ Cardinality(QuantityCreated(call.wire)) = 1
    /\ Max(QuantityPosts(call.wire)) = Len(call.wire)
    /\ LogWrites(call.wire) = {}

\* A create_log with an asset id under no sub-type: an error and no write at all
C23_WitnessUnresolved ==
    /\ call.tool = "create_log"
    /\ ReturnedError
    /\ call.args.quantities # None
    /\ Probes(call.wire) # {}
    /\ \A i \in Probes(call.wire) : ~Hit(call.wire[i])
    /\ \E i \in Probes(call.wire) : call.wire[i].status = 200
    /\ QuantityRequests(call.wire) = {} /\ LogWrites(call.wire) = {}

(***************************************************************************)
(* C24: parents that no sub-type returns                                   *)
(***************************************************************************)
AssetWriteTools == {"create_asset", "update_asset"}

\* The call looked its parents up, and the lookups were not cut short by a token
\* exchange that failed
ParentsLookedUp ==
    /\ call.tool \in AssetWriteTools
    /\ call.args.parent_ids # None
    /\ The(call.args.parent_ids) # <<>>
    /\ Probes(call.wire) # {}
    /\ \A i \in TokIdx(call.wire) : call.wire[i].status = 200

C24_WitnessOneOfTwo ==
    /\ ParentsLookedUp
    /\ call.tool = "update_asset"
    /\ call.args.parent_ids = Some(<<"A2", "A1">>)
    /\ HitsOf(call.wire, "A2") = {} /\ HitsOf(call.wire, "A1") # {}
    /\ \E i \in EntityWrites(call.wire) :
          Len(call.wire[i].req.payload.relationships["parent"]) = 1
    /\ ~ReturnedError

(***************************************************************************)
(* C25: lists in which every request fails                                 *)
(***************************************************************************)
FannedOut == {"get_logs", "get_assets", "get_quantities"}

TypesOf(tool) ==
    CASE tool = "get_logs" -> LOG_TYPES
      [] tool = "get_assets" -> ASSET_TYPES
      [] tool = "get_quantities" -> QUANTITY_TYPES

\* Nothing the call sent was answered 2xx: the token exchange failed, every token
\* was refused, the backend was unreachable or answered every request with an error
AllFailed(w) == w # <<>> /\ \A i \in ApiIdx(w) : ~Ok2xx(w[i])

\* The call tried sub-type t: a request for it is on the wire, or the token
\* exchange made for it failed
Tried(w, bundle) ==
    \/ \E i \in ApiIdx(w) : w[i].req.bundle = bundle
    \/ \E i \in TokIdx(w) : w[i].status # 200

\* C25: a list without a sub-type in which the request for every sub-type fails
\* (the token exchange fails, the backend is unreachable or answers with an
\* error) returns a success result with an empty list and returned = 0; the same
\* failure of a list with a sub-type returns an error.
C25_AllFailedMerged ==
    (call.tool \in FannedOut /\ CanCreateClient(environ) /\ AllFailed(call.wire)) =>
        IF call.args.type = NoType
        THEN /\ \A t \in Range(TypesOf(call.tool)) : Tried(call.wire, t)
             /\ call.result.kind = "return"
             /\ ~call.result.json.error
             /\ call.result.json.items = <<>>
             /\ call.result.json.returned = 0
        ELSE ReturnedError

\* A get_logs without a sub-type against an unreachable backend: every sub-type
\* was requested, and the result is an empty list
C25_Witness ==
    /\ call.tool = "get_logs" /\ call.args.type = NoType
    /\ Cardinality(ApiIdx(call.wire)) = Len(LOG_TYPES)
    /\ \A i \in ApiIdx(call.wire) : call.wire[i].status = NetErr
    /\ ~call.result.json.error /\ call.result.json.returned = 0

\* A get_assets without a sub-type while the token exchange fails
C25_WitnessToken ==
    /\ call.tool = "get_assets" /\ call.args.type = NoType
    /\ ApiIdx(call.wire) = {}
    /\ Cardinality(TokIdx(call.wire)) = Len(ASSET_TYPES)
    /\ ~call.result.json.error /\ call.result.json.returned = 0

\* A get_assets with a sub-type against an unreachable backend: an error
C25_WitnessSubType ==
    /\ call.tool = "get_assets" /\ call.args.type # NoType
    /\ call.wire # <<>> /\ call.wire[Len(call.wire)].status = NetErr
    /\ ReturnedError

(***************************************************************************)
(* C26: the merged list of get_logs against what the backend holds         *)
(***************************************************************************)
IsMergedLogs == call.tool = "get_logs" /\ IsMerged

\* The sub-types whose request was answered 2xx
Succeeding(w) == {w[i].req.bundle : i \in {j \in ApiIdx(w) : Ok2xx(w[j])}}

\* All the logs the succeeding sub-types hold
HeldBy(w, held) ==
    UNION {Range(held[b]) : b \in Succeeding(w) \cap DOMAIN held}

\* out holds the n most recent of the logs in all, newest first
MostRecent(out, all, n) ==
    LET src == [k \in 1..Len(out) |-> {r \in all : r.id = out[k].id}] \o <<>>
        ts == [k \in 1..Len(out) |-> (CHOOSE r \in src[k] : TRUE).ts] \o <<>>
    IN /\ Len(out) = Min({n, Cardinality(all)})
       /\ \A k \in 1..Len(out) : src[k] # {}
       /\ \A j, k \in 1..Len(out) : j < k => out[j].id # out[k].id /\ ts[j] >= ts[k]
       /\ \A r \in all : (\A k \in 1..Len(out) : out[k].id # r.id) =>
             \A k \in 1..Len(out) : r.ts <= ts[k]

\* C26: for get_logs without log_type and with any limit, the returned list is
\* the `limit` most recent logs, newest first, among all the logs the succeeding
\* sub-types hold, given that each response is sorted and honours its page[limit].
C26_MostRecentOfAll ==
    IsMergedLogs =>
        MostRecent(call.result.json.items, HeldBy(call.wire, call.args.held), call.args.limit)

\* What holds: the same for every limit up to the page cap of 100
C26_MostRecentUpToCap ==
    (IsMergedLogs /\ call.args.limit <= PageLimitCap) =>
        MostRecent(call.result.json.items, HeldBy(call.wire, call.args.held), call.args.limit)

\* A merged get_logs with limit 2 over two sub-types holding three logs
C26_WitnessUpToCap ==
    /\ IsMergedLogs
    /\ call.args.limit = 2
    /\ Cardinality(HeldBy(call.wire, call.args.held)) = 3
    /\ Len(call.result.json.items) = 2
    /\ call.result.json.items[1].type # call.result.json.items[2].type

\* A merged get_logs with limit 102 against sub-types holding 101 and 1 logs: 101
\* logs are returned, and the oldest log of the first sub-type is missing
C26_CutByPageCap ==
    /\ IsMergedLogs
    /\ call.args.limit = PageLimitCap + MaxLimit
    /\ Cardinality(HeldBy(call.wire, call.args.held)) = PageLimitCap + 2
    /\ Len(call.result.json.items) = PageLimitCap + 1

(***************************************************************************)
(* C27: a token exchange that fails after a 401                            *)
(***************************************************************************)
\* The request at i was answered 401 and the token exchange after it was refused.
ReExchangeFailed(w, i) ==
    /\ w[i].kind = "api" /\ w[i].status = 401
    /\ i < Len(w) /\ w[i + 1].kind = "token" /\ w[i + 1].status # 200

\* C27: when the token exchange that follows a 401 fails, the call fails without
\* sending the retry and no token is cached afterwards; a call that starts with no
\* cached token begins with a token exchange; and no request carries a token that
\* was discarded after a 401, in this call or in an earlier one.
C27_FailedReExchange ==
    IsTransportCall =>
        LET w == call.wire
        IN /\ \A i \in ApiIdx(w) :
                 ReExchangeFailed(w, i) =>
                     /\ i + 1 = Len(w)
                     /\ ApiIdx(w) = {i}
                     /\ call.result.kind = "http"
                     /\ access_token = NoToken
           /\ (call.tok0 = NoToken /\ w # <<>>) => w[1].kind = "token"
           /\ \A j \in ApiIdx(w) :
                 w[j].bearer \notin (call.discarded0 \cup DiscardedIn(w, j))

\* A request sent with the cached token is answered 401 and the exchange is refused
C27_Witness ==
    /\ IsTransportCall
    /\ call.tok0 # NoToken
    /\ Len(call.wire) = 2
    /\ ReExchangeFailed(call.wire, 1)
    /\ call.wire[1].bearer = call.tok0
    /\ access_token = NoToken

\* The call after a discarded token begins with an exchange and sends the new token
C27_WitnessNext ==
    /\ IsTransportCall
    /\ call.tok0 = NoToken
    /\ call.discarded0 # {}
    /\ Len(call.wire) = 2
    /\ call.wire[1].kind = "token" /\ call.wire[1].status = 200
    /\ call.wire[2].kind = "api" /\ call.wire[2].status = 200
    /\ call.wire[2].bearer \notin call.discarded0

\* A retry that carries the new token after the old one was discarded in the same call
C27_WitnessRetry ==
    /\ IsTransportCall
    /\ Len(call.wire) = 3
    /\ DiscardedIn(call.wire, 3) = {call.tok0}
    /\ call.wire[3].bearer # call.tok0

(***************************************************************************)
(* C28: the requests of one lookup are bounded                             *)
(***************************************************************************)
\* The requests of the call for sub-type t with include list inc
SentFor(w, t, inc) == {i \in ApiIdx(w) : w[i].req.bundle = t /\ w[i].req.include = inc}

\* Every request is a GET for one of the sub-types at one of the include levels;
\* each (sub-type, level) is requested once, and a second time only after a 401.
OncePerLevel(w, types, attempts) ==
    /\ \A i \in ApiIdx(w) :
          /\ w[i].method = "GET"
          /\ w[i].req.bundle \in Range(types)
          /\ w[i].req.include \in Range(attempts)
    /\ \A t \in Range(types), inc \in Range(attempts) :
          LET same == SentFor(w, t, inc)
          IN /\ Cardinality(same) <= 2
             /\ Cardinality(same) = 2 => (w[Min(same)].status = 401 /\ Max(same) = Min(same) + 2)

\* The (sub-type, level) pairs the call asked for
LevelsAsked(w) == {<<w[i].req.bundle, w[i].req.include>> : i \in ApiIdx(w)}

\* C28: every tool call ends with a JSON result. get_log without log_type sends at
\* most 5 GETs per log sub-type, one per include level, 55 in all; get_asset without
\* asset_type at most 2 per asset sub-type, 22 in all; the single 401 retry of the
\* transport at most doubles each of them.
C28_BoundedRequests ==
    IsToolCall =>
        LET w == call.wire
        IN /\ call.result.kind = "return"
           /\ call.result.json.error \in BOOLEAN
           /\ (call.tool = "get_log" /\ call.args.type = NoType) =>
                 /\ OncePerLevel(w, LOG_TYPES, LogIncludeAttempts)
                 /\ \A t \in Range(LOG_TYPES) :
                       Cardinality({p \in LevelsAsked(w) : p[1] = t}) <= 5
                 /\ Cardinality(LevelsAsked(w)) <= 55
                 /\ Cardinality(ApiIdx(w)) <= 2 * 55
           /\ (call.tool = "get_asset" /\ call.args.type = NoType) =>
                 /\ OncePerLevel(w, ASSET_TYPES, AssetIncludeAttempts)
                 /\ \A t \in Range(ASSET_TYPES) :
                       Cardinality({p \in LevelsAsked(w) : p[1] = t}) <= 2
                 /\ Cardinality(LevelsAsked(w)) <= 22
                 /\ Cardinality(ApiIdx(w)) <= 2 * 22

\* A get_log without log_type that asked every sub-type at every level and returned
\* "not found"
C28_Witness ==
    /\ call.tool = "get_log" /\ call.args.type = NoType
    /\ Cardinality(LevelsAsked(call.wire)) = 55
    /\ Cardinality(ApiIdx(call.wire)) = 55
    /\ call.result.json.error

\* The same with every request answered 401 and retried: 110 GETs
C28_WitnessDoubled ==
    /\ call.tool = "get_log" /\ call.args.type = NoType
    /\ Cardinality(ApiIdx(call.wire)) = 110
    /\ call.result.json.error

\* A get_asset without asset_type that sent its 22 GETs
C28_WitnessAsset ==
    /\ call.tool = "get_asset" /\ call.args.type = NoType
    /\ Cardinality(LevelsAsked(call.wire)) = 22
    /\ Cardinality(ApiIdx(call.wire)) = 22
    /\ call.result.json.error

(***************************************************************************)
(* C29: the merged list of quantities                                      *)
(***************************************************************************)
IsMergedQuantities ==
    call.tool = "get_quantities" /\ call.args.type = NoType /\ CanCreateClient(environ)

\* What the successful response for sub-type t carried, in the response's order
RECURSIVE ReturnedFor(_, _)
ReturnedFor(w, t) ==
    IF w = <<>> THEN <<>>
    ELSE (IF Ok2xx(Head(w)) /\ Head(w).req.bundle = t THEN Head(w).data.items ELSE <<>>)
         \o ReturnedFor(Tail(w), t)

\* The per-type results one after the other: standard, material, test
InTypeOrder(w) ==
    ReturnedFor(w, "standard") \o ReturnedFor(w, "material") \o ReturnedFor(w, "test")

\* C29: get_quantities without quantity_type returns the first `limit` of the
\* per-type results concatenated in the order standard, material, test, each
\* in the order of its response (nothing is sorted); a quantity of a later
\* sub-type is returned only when the earlier sub-types returned fewer than
\* `limit` quantities.
C29_ConcatenatedThenCut ==
    IsMergedQuantities =>
        LET w == call.wire
            out == call.result.json.items
            cat == InTypeOrder(w)
        IN /\ Len(out) = Min({call.args.limit, Len(cat)})
           /\ \A k \in 1..Len(out) : out[k].id = cat[k].id /\ out[k].type = cat[k].bundle
           /\ \A k \in 1..Len(out) :
                 /\ out[k].type = "material" => Len(ReturnedFor(w, "standard")) < call.args.limit
                 /\ out[k].type = "test" =>
                       Len(ReturnedFor(w, "standard")) + Len(ReturnedFor(w, "material"))
                           < call.args.limit

\* The standard quantities fill the limit and the test quantity is left out
C29_Witness ==
    /\ IsMergedQuantities
    /\ Len(ReturnedFor(call.wire, "standard")) = call.args.limit
    /\ ReturnedFor(call.wire, "test") # <<>>
    /\ Len(call.result.json.items) = call.args.limit
    /\ \A k \in 1..Len(call.result.json.items) : call.result.json.items[k].type = "standard"

\* A test quantity follows a standard quantity whose name sorts after its own
C29_WitnessUnsorted ==
    /\ IsMergedQuantities
    /\ Len(call.result.json.items) = 2
    /\ call.result.json.items[1].type = "standard"
    /\ call.result.json.items[2].type = "test"
    /\ SeqLess(Codes(StrLower(ReturnedFor(call.wire, "test")[1].name)),
               Codes(StrLower(ReturnedFor(call.wire, "standard")[1].name)))

(***************************************************************************)
(* C30: the parameterized prompt templates                                 *)
(***************************************************************************)
TextProduced == qcase.fn = "text"

\* sub occurs in text
Contains(text, sub) ==
    \E i \in 0..(Len(text) - Len(sub)) : SubSeq(text, i + 1, i + Len(sub)) = sub

SeasonField == <<"{", "s", "e", "a", "s", "o", "n", "}">>
AssetNameField == <<"{", "a", "s", "s", "e", "t", "_", "n", "a", "m", "e", "}">>

\* C30 as stated: the text a parameterized prompt produces contains the value it
\* was given and nowhere the placeholder "{asset_name}" or "{season}".
C30_Substituted ==
    TextProduced =>
        /\ Contains(qcase.text, qcase.arg)
        /\ ~Contains(qcase.text, SeasonField)
        /\ ~Contains(qcase.text, AssetNameField)

\* season_log substitutes its parameter: its text contains the season and no
\* placeholder; the text of asset_history contains the asset name in its first
\* sentence.
C30_SeasonLogSubstituted ==
    TextProduced =>
        /\ Contains(qcase.text, <<"'">> \o qcase.arg \o <<"'">>)
        /\ qcase.name = "season_log" =>
              ~Contains(qcase.text, SeasonField) /\ ~Contains(qcase.text, AssetNameField)

\* The text of asset_history for the asset "F1" carries the placeholder as written
C30_PlaceholderLeft ==
    /\ TextProduced
    /\ qcase.name = "asset_history"
    /\ qcase.arg = <<"F", "1">>
    /\ Contains(qcase.text, <<"'", "F", "1", "'">>)
    /\ Contains(qcase.text, <<"n", "a", "m", "e", "=", "'">> \o AssetNameField)

\* The text of season_log for a three-character season
C30_WitnessSeason ==
    /\ TextProduced
    /\ qcase.name = "season_log"
    /\ Len(qcase.arg) = 3
    /\ Contains(qcase.text, <<"'">> \o qcase.arg \o <<"'">>)

====
